---- MODULE Spec2Model ----
(***************************************************************************)
(* Hiking directory: postcode geocoder, proximity search and postcode      *)
(* preprocessing, modelled from the TypeScript sources.                    *)
(*                                                                         *)
(* Numbers.  A JavaScript number is modelled as a fixed-point integer with *)
(* four decimals (value * SCALE), or as NaN.  Coordinates read from JSON   *)
(* are in hundredths of a degree (value * DEG).  Strings are TLA+ strings, *)
(* read one character at a time with SubSeq.                               *)
(***************************************************************************)
EXTENDS Integers, Sequences, FiniteSets, TLC

\* ------------------------------------------------------------------------
\* Number representation
\* ------------------------------------------------------------------------

\* Fixed-point scale of a number: 1.0 is SCALE.
SCALE == 10 ^ 4

\* Fixed-point scale of a coordinate in degrees: 1 degree is DEG.
DEG == 10 ^ 2

\* The number NaN (no fixed-point value is this small).
NaN == 0 - (2 ^ 30)

IsNaN(x) == x = NaN

Abs(x) == IF x < 0 THEN 0 - x ELSE x

\* Division rounded to the nearest integer, halves away from zero, the same
\* for x and -x (as floating-point rounding is).
RDiv(x, y) == IF x >= 0 THEN (x + y \div 2) \div y
                        ELSE 0 - (((0 - x) + y \div 2) \div y)

\* x <= y and x > y of JavaScript: false when either side is NaN.
LessEq(x, y) == (~IsNaN(x)) /\ (~IsNaN(y)) /\ x <= y
Greater(x, y) == (~IsNaN(x)) /\ (~IsNaN(y)) /\ x > y

\* Fixed-point scale of an angle in radians, of a sine and of a cosine:
\* 1.0 is FINE.
FINE == 10 ^ 8

\* Math.PI and its half, as angles (scale FINE).
PI == 314159265
HALF_PI == PI \div 2

\* FINE is HALF * HALF: a factor x is split into x \div HALF and x % HALF.
HALF == 10 ^ 4

\* The arithmetic below is written as functions: the argument of a function
\* is a value by the time the function uses it.

\* A value wider than one integer: <<hi, lo>> stands for hi * FINE + lo with
\* 0 <= lo < FINE.
Wide == Int \X Int

\* The exact product of x >= 0 and y >= 0.
WMul[x \in Int, y \in Int] ==
    LET x1 == x \div HALF
        x0 == x % HALF
        y1 == y \div HALF
        y0 == y % HALF
        m == x1 * y0 + x0 * y1
        low == (m % HALF) * HALF + x0 * y0
    IN  <<x1 * y1 + m \div HALF + low \div FINE, low % FINE>>

WAdd[a \in Wide, b \in Wide] ==
    <<a[1] + b[1] + (a[2] + b[2]) \div FINE, (a[2] + b[2]) % FINE>>

\* a - b for a >= b
WSub[a \in Wide, b \in Wide] ==
    IF a[2] >= b[2] THEN <<a[1] - b[1], a[2] - b[2]>>
                    ELSE <<a[1] - b[1] - 1, a[2] + FINE - b[2]>>

WLessEq[a \in Wide, b \in Wide] == a[1] < b[1] \/ (a[1] = b[1] /\ a[2] <= b[2])

\* Largest q in lo..hi with q * d <= w, by bisection.
WDivIn[w \in Wide, d \in Int, lo \in Int, hi \in Int] ==
    IF lo >= hi THEN lo
    ELSE IF WLessEq[WMul[(lo + hi + 1) \div 2, d], w]
         THEN WDivIn[w, d, (lo + hi + 1) \div 2, hi]
         ELSE WDivIn[w, d, lo, (lo + hi + 1) \div 2 - 1]

\* w / d rounded to the nearest integer, for a quotient of at most max.
WDiv[w \in Wide, d \in Int, max \in Int] ==
    WDivIn[WAdd[w, <<0, d \div 2>>], d, 0, max]

\* Largest r in lo..hi with r * r <= w, by bisection.
WSqrtIn[w \in Wide, lo \in Int, hi \in Int] ==
    IF lo >= hi THEN lo
    ELSE IF WLessEq[WMul[(lo + hi + 1) \div 2, (lo + hi + 1) \div 2], w]
         THEN WSqrtIn[w, (lo + hi + 1) \div 2, hi]
         ELSE WSqrtIn[w, lo, (lo + hi + 1) \div 2 - 1]

\* r or r + 1, whichever has its square nearer to w, for r * r <= w.
WNearerRoot[w \in Wide, r \in Int] ==
    IF WLessEq[WAdd[WMul[r, r], <<0, r + 1>>], w] THEN r + 1 ELSE r

\* Math.sqrt of a wide value of scale FINE * FINE, rounded to the nearest;
\* the result has scale FINE.
WSqrt[w \in Wide] == WNearerRoot[w, WSqrtIn[w, 0, 2 * FINE]]

\* <<hi, lo>> rounded to hi or hi + 1.
WRound[p \in Wide] == p[1] + (IF 2 * p[2] >= FINE THEN 1 ELSE 0)

\* x * y of two numbers of scale FINE, rounded to the nearest.
MulF[x \in Int, y \in Int] ==
    IF (x < 0) = (y < 0) THEN WRound[WMul[Abs(x), Abs(y)]]
    ELSE 0 - WRound[WMul[Abs(x), Abs(y)]]

\* x / y of two numbers of scale FINE with 0 <= x <= y.
DivF[x \in Int, y \in Int] == WDiv[<<x, 0>>, y, FINE]

\* x / n rounded to the nearest, for an integer n > 0.
DivN[x \in Int, n \in Int] == RDiv(x, n)

\* Taylor series of sin on 0..PI/2: x - x^3/3! + x^5/5! - ...; term is the
\* k-th term, the next one is -term * x^2 / ((2k)(2k+1)).
SinSeries[x \in Int, term \in Int, k \in Int, acc \in Int] ==
    IF term = 0 \/ k > 12 THEN acc
    ELSE SinSeries[x, 0 - DivN[MulF[MulF[term, x], x], (2 * k) * (2 * k + 1)],
                   k + 1, acc + term]

\* A sine is at most 1.
AtMostOne[s \in Int] == IF s > FINE THEN FINE ELSE s

SinFirstQuadrant[x \in Int] == AtMostOne[SinSeries[x, x, 1, 0]]

\* sin of an angle in -PI..PI: sin(-x) = -sin(x), sin(x) = sin(PI - x).
SinReduced[r \in Int] ==
    IF r < 0 - HALF_PI THEN 0 - SinFirstQuadrant[PI + r]
    ELSE IF r < 0 THEN 0 - SinFirstQuadrant[0 - r]
    ELSE IF r > HALF_PI THEN SinFirstQuadrant[PI - r]
    ELSE SinFirstQuadrant[r]

\* Math.sin
Sin[x \in Int] == SinReduced[((x + PI) % (2 * PI)) - PI]

\* Math.cos
Cos[x \in Int] == Sin[x + HALF_PI]

\* Taylor series of atan on 0..tan(PI/8): t - t^3/3 + t^5/5 - ...; pow is
\* t^(2k-1) with its sign.
AtanSeries[t \in Int, pow \in Int, k \in Int, acc \in Int] ==
    IF pow = 0 \/ k > 14 THEN acc
    ELSE AtanSeries[t, 0 - MulF[MulF[pow, t], t], k + 1, acc + DivN[pow, 2 * k - 1]]

\* atan(t) = 2 * atan(h) for h = t / (1 + sqrt(1 + t^2))
AtanHalf[h \in Int] == 2 * AtanSeries[h, h, 1, 0]

\* atan(t) for 0 <= t <= 1
AtanUnit[t \in Int] ==
    AtanHalf[DivF[t, FINE + WSqrt[WAdd[<<FINE, 0>>, WMul[t, t]]]]]

\* Math.atan2(y, x) for y >= 0 and x >= 0 (both arguments are square roots
\* in the callers); NaN when either is NaN.
Atan2[y \in Int, x \in Int] ==
    IF IsNaN(y) \/ IsNaN(x) THEN NaN
    ELSE IF y = 0 THEN 0
    ELSE IF x = 0 THEN HALF_PI
    ELSE IF y <= x THEN AtanUnit[DivF[y, x]]
    ELSE HALF_PI - AtanUnit[DivF[x, y]]

\* ------------------------------------------------------------------------
\* Great-circle distance
\* ------------------------------------------------------------------------

\* Earth radius in km.
R == 6371

\* toRad: degrees (scale DEG) to radians (scale FINE).
toRad[deg \in Int] ==
    IF deg < 0 THEN 0 - WDiv[WMul[0 - deg, PI], 180 * DEG, 2 ^ 30]
    ELSE WDiv[WMul[deg, PI], 180 * DEG, 2 ^ 30]

\* sLat^2 + cosCos * sLon^2 as a wide value of scale FINE * FINE, for the
\* sines of the half differences and the product of the two cosines.
HaversineTerms[sLat \in Int, sLon \in Int, cosCos \in Int] ==
    WAdd[WMul[Abs(sLat), Abs(sLat)],
         WAdd[WMul[WMul[Abs(cosCos), Abs(sLon)][1], Abs(sLon)],
              <<0, MulF[WMul[Abs(cosCos), Abs(sLon)][2], Abs(sLon)]>>]]

\* a = sin^2(dLat/2) + cos(lat1) * cos(lat2) * sin^2(dLon/2)
HaversineA[lat1 \in Int, lon1 \in Int, lat2 \in Int, lon2 \in Int] ==
    HaversineTerms[Sin[DivN[toRad[lat2 - lat1], 2]],
                   Sin[DivN[toRad[lon2 - lon1], 2]],
                   MulF[Cos[toRad[lat1]], Cos[toRad[lat2]]]]

\* R * c for c = 2 * atan2(...), a number of kilometres (scale SCALE).
KmOfC[c \in Int] ==
    IF IsNaN(c) THEN NaN ELSE R * (c \div HALF) + RDiv(R * (c % HALF), HALF)

\* c = 2 * atan2(sqrt(a), sqrt(1 - a)); the square root of a negative 1 - a
\* is NaN.
COfA[a \in Wide] ==
    IF ~WLessEq[a, <<FINE, 0>>] THEN NaN
    ELSE 2 * Atan2[WSqrt[a], WSqrt[WSub[<<FINE, 0>>, a]]]

\* The distance as the code computes it; an undefined or NaN coordinate
\* propagates as NaN.
HaversineOf(lat1, lon1, lat2, lon2) ==
    IF IsNaN(lat1) \/ IsNaN(lon1) \/ IsNaN(lat2) \/ IsNaN(lon2) THEN NaN
    ELSE KmOfC[COfA[HaversineA[lat1, lon1, lat2, lon2]]]

\* Math.asin on [0, 1]; NaN beyond 1.
Asin[x \in Int] ==
    IF x > FINE THEN NaN
    ELSE Atan2[x, WSqrt[WSub[<<FINE, 0>>, WMul[x, x]]]]

\* h = sin(dLat/2) ** 2 + cos(la1) * cos(la2) * sin(dLon/2) ** 2
EstimatorH[sLat \in Int, sLon \in Int, cosCos \in Int] ==
    WAdd[WMul[Abs(sLat), Abs(sLat)],
         WAdd[WMul[WMul[Abs(sLon), Abs(sLon)][1], Abs(cosCos)],
              <<0, MulF[WMul[Abs(sLon), Abs(sLon)][2], Abs(cosCos)]>>]]

\* 2 * R * Math.asin(Math.sqrt(h))
KmOfH[h \in Wide] ==
    IF IsNaN(Asin[WSqrt[h]]) THEN NaN ELSE KmOfC[2 * Asin[WSqrt[h]]]

\* haversineKm of normalise-hikes: the points are [lon, lat] pairs.
estimatorHaversineKm(a, b) ==
    KmOfH[EstimatorH[Sin[DivN[toRad[b[2] - a[2]], 2]],
                     Sin[DivN[toRad[b[1] - a[1]], 2]],
                     MulF[Cos[toRad[a[2]]], Cos[toRad[b[2]]]]]]

\* Number(d.toFixed(2)): two decimals, halves up; NaN stays NaN.
ToFixed2(d) == IF IsNaN(d) THEN NaN ELSE RDiv(d, SCALE \div 100) * (SCALE \div 100)

\* ------------------------------------------------------------------------
\* Strings
\* ------------------------------------------------------------------------

\* The characters \s matches (space and tab stand for all of them).
Whitespace == {" ", "\t"}

LowerLetters == "abcdefghijklmnopqrstuvwxyz"
UpperLetters == "ABCDEFGHIJKLMNOPQRSTUVWXYZ"
Digits == "0123456789"

Head1(s) == SubSeq(s, 1, 1)
Tail1(s) == SubSeq(s, 2, Len(s))
Last1(s) == SubSeq(s, Len(s), Len(s))
Front1(s) == SubSeq(s, 1, Len(s) - 1)

\* 1-based position of character c in string s, 0 when absent.
IndexOf(s, c) ==
    IF \E i \in 1..Len(s) : SubSeq(s, i, i) = c
    THEN CHOOSE i \in 1..Len(s) :
            /\ SubSeq(s, i, i) = c
            /\ \A j \in 1..(i - 1) : SubSeq(s, j, j) # c
    ELSE 0

\* String.prototype.includes for a single character.
Includes(s, c) == IndexOf(s, c) > 0

\* String.prototype.trim
RECURSIVE TrimStart(_)
TrimStart(s) ==
    IF s = "" THEN ""
    ELSE IF Head1(s) \in Whitespace THEN TrimStart(Tail1(s)) ELSE s

RECURSIVE TrimEnd(_)
TrimEnd(s) ==
    IF s = "" THEN ""
    ELSE IF Last1(s) \in Whitespace THEN TrimEnd(Front1(s)) ELSE s

Trim(s) == TrimEnd(TrimStart(s))

UpperChar(c) ==
    IF Includes(LowerLetters, c)
    THEN LET i == IndexOf(LowerLetters, c) IN SubSeq(UpperLetters, i, i)
    ELSE c

LowerChar(c) ==
    IF Includes(UpperLetters, c)
    THEN LET i == IndexOf(UpperLetters, c) IN SubSeq(LowerLetters, i, i)
    ELSE c

\* String.prototype.toUpperCase / toLowerCase
RECURSIVE ToUpperCase(_)
ToUpperCase(s) ==
    IF s = "" THEN "" ELSE UpperChar(Head1(s)) \o ToUpperCase(Tail1(s))

RECURSIVE ToLowerCase(_)
ToLowerCase(s) ==
    IF s = "" THEN "" ELSE LowerChar(Head1(s)) \o ToLowerCase(Tail1(s))

\* s.replace(/\s+/g, rep): every maximal run of whitespace becomes rep.
RECURSIVE ReplaceAllWsRuns(_, _)
ReplaceAllWsRuns(s, rep) ==
    IF s = "" THEN ""
    ELSE IF Head1(s) \in Whitespace
         THEN rep \o ReplaceAllWsRuns(TrimStart(s), rep)
         ELSE Head1(s) \o ReplaceAllWsRuns(Tail1(s), rep)

\* s.replace(/\s+/, rep): only the first run of whitespace becomes rep.
RECURSIVE ReplaceFirstWsRun(_, _)
ReplaceFirstWsRun(s, rep) ==
    IF s = "" THEN ""
    ELSE IF Head1(s) \in Whitespace
         THEN rep \o TrimStart(s)
         ELSE Head1(s) \o ReplaceFirstWsRun(Tail1(s), rep)

\* Value of a string of decimal digits; NaN when a character is no digit.
RECURSIVE DigitsValue(_, _)
DigitsValue(s, acc) ==
    IF s = "" THEN acc
    ELSE IF ~Includes(Digits, Head1(s)) THEN NaN
    ELSE DigitsValue(Tail1(s), acc * 10 + (IndexOf(Digits, Head1(s)) - 1))

\* Fraction digits f (after the point) as a fixed-point value: the first
\* four digits count.
FractionValue(f) ==
    LET four == SubSeq(f \o "0000", 1, 4)
    IN  DigitsValue(four, 0)

\* An unsigned decimal literal: digits, digits.digits, digits. or .digits
UnsignedValue(s) ==
    LET dot == IndexOf(s, ".")
        ip == IF dot = 0 THEN s ELSE SubSeq(s, 1, dot - 1)
        fp == IF dot = 0 THEN "" ELSE SubSeq(s, dot + 1, Len(s))
    IN  IF ip = "" /\ fp = "" THEN NaN
        ELSE IF IsNaN(DigitsValue(ip, 0)) \/ IsNaN(DigitsValue(fp, 0)) THEN NaN
        ELSE DigitsValue(ip, 0) * SCALE + FractionValue(fp)

\* Number(s) for decimal literals: surrounding whitespace ignored, the empty
\* string is 0, an optional sign, anything else is NaN.
ToNumber(s) ==
    LET t == Trim(s)
    IN  IF t = "" THEN 0
        ELSE IF Head1(t) = "-"
             THEN LET v == UnsignedValue(Tail1(t)) IN IF IsNaN(v) THEN NaN ELSE 0 - v
        ELSE IF Head1(t) = "+" THEN UnsignedValue(Tail1(t))
        ELSE UnsignedValue(t)

\* ------------------------------------------------------------------------
\* Postcode normalisation
\* ------------------------------------------------------------------------

\* normalisePostcode of the search route (query time).
normalisePostcode(raw) ==
    LET trimmed == ToUpperCase(Trim(raw))
        singleSpaced == ReplaceAllWsRuns(trimmed, " ")
    IN  IF Includes(singleSpaced, " ") THEN singleSpaced
        ELSE IF Len(singleSpaced) > 3
             THEN SubSeq(singleSpaced, 1, Len(singleSpaced) - 3) \o " "
                    \o SubSeq(singleSpaced, Len(singleSpaced) - 2, Len(singleSpaced))
        ELSE singleSpaced

\* postcodeToFilename of the search route.
postcodeToFilename(postcode) == ReplaceFirstWsRun(postcode, "-") \o ".json"

\* The name preprocess gives the by-code file of a postcode.
byCodeFilename(postcode) == ReplaceFirstWsRun(postcode, "-") \o ".json"

\* normalisePostcode of the preprocessing script.
normalisePostcodePre(raw) ==
    LET trimmed == ReplaceAllWsRuns(ToUpperCase(Trim(raw)), "")
    IN  IF trimmed = "" THEN ""
        ELSE IF Len(trimmed) <= 3 THEN trimmed
        ELSE SubSeq(trimmed, 1, Len(trimmed) - 3) \o " "
               \o SubSeq(trimmed, Len(trimmed) - 2, Len(trimmed))

\* ------------------------------------------------------------------------
\* Preprocessing helpers
\* ------------------------------------------------------------------------

\* null, as parseNumber returns it.
Null == NaN - 1

\* The part of s before its first space (s.split(' ')[0]).
BeforeSpace(s) ==
    IF Includes(s, " ") THEN SubSeq(s, 1, IndexOf(s, " ") - 1) ELSE s

\* The part of s between its first and second space (s.split(' ')[1]), ""
\* when s has no space (undefined there: the code only tests it for truth).
AfterSpace(s) ==
    IF Includes(s, " ")
    THEN BeforeSpace(SubSeq(s, IndexOf(s, " ") + 1, Len(s)))
    ELSE ""

\* The match of /^[A-Z]+/: the leading run of capital letters.
RECURSIVE LeadingLetters(_)
LeadingLetters(s) ==
    IF s = "" THEN ""
    ELSE IF Includes(UpperLetters, Head1(s))
         THEN Head1(s) \o LeadingLetters(Tail1(s))
         ELSE ""

\* deriveAreaDistrictSector
deriveAreaDistrictSector(pc) ==
    LET outward == BeforeSpace(pc)
        inward == AfterSpace(pc)
        areaMatch == LeadingLetters(outward)
    IN  [area |-> IF areaMatch # "" THEN areaMatch ELSE outward,
         district |-> outward,
         sector |-> IF Len(inward) > 0 THEN outward \o " " \o Head1(inward)
                    ELSE outward]

\* parseNumber without its tests for a missing, empty or blank field: what
\* Number() makes of the field.
parseNumberOfEmpty(value) ==
    IF IsNaN(ToNumber(Trim(value))) THEN Null ELSE ToNumber(Trim(value))

\* parseNumber: null for a missing, empty, blank or non-numeric field.
parseNumber(value) ==
    IF value = "" THEN Null
    ELSE IF Trim(value) = "" THEN Null
    ELSE IF IsNaN(ToNumber(Trim(value))) THEN Null
    ELSE ToNumber(Trim(value))

\* truthyFlag without the default for a missing or empty field.
truthyFlagNoDefault(value) ==
    ToLowerCase(Trim(value)) \in {"y", "yes", "1", "true", "t"}

\* truthyFlag: true for a missing or empty field, else whether the field is
\* one of y, yes, 1, true, t.
truthyFlag(value) ==
    IF value = "" THEN TRUE
    ELSE ToLowerCase(Trim(value)) \in {"y", "yes", "1", "true", "t"}

\* line.split(','): the pieces between the commas.
RECURSIVE SplitComma(_)
SplitComma(line) ==
    IF ~Includes(line, ",") THEN <<line>>
    ELSE <<SubSeq(line, 1, IndexOf(line, ",") - 1)>>
            \o SplitComma(SubSeq(line, IndexOf(line, ",") + 1, Len(line)))

\* splitCsvLine: split at the commas and trim each piece.
splitCsvLine(line) ==
    LET pieces == SplitComma(line)
    IN  [i \in 1..Len(pieces) |-> Trim(pieces[i])]

\* buildHeaderMap: lower-cased header -> column; a later column of the same
\* name replaces an earlier one.
buildHeaderMap(headers) ==
    [h \in {ToLowerCase(headers[i]) : i \in 1..Len(headers)} |->
        CHOOSE idx \in 1..Len(headers) :
            /\ ToLowerCase(headers[idx]) = h
            /\ \A j \in (idx + 1)..Len(headers) : ToLowerCase(headers[j]) # h]

\* getField: the column of that name; "" stands for undefined (no such
\* column, or a row too short), which every caller treats as "".
getField(row, hdrMap, name) ==
    IF ToLowerCase(name) \notin DOMAIN hdrMap THEN ""
    ELSE IF hdrMap[ToLowerCase(name)] > Len(row) THEN ""
    ELSE row[hdrMap[ToLowerCase(name)]]

\* ------------------------------------------------------------------------
\* State
\* ------------------------------------------------------------------------

VARIABLES
    postcodeFiles,      \* data/postcodes/by-code: file name -> file content
    hikeFiles,          \* data/hikes: the files, in readdir order
    req,                \* the search call being answered
    resp,               \* its outcome
    normRaw,            \* two raw postcodes given to a normaliser
    normOut,            \* what the normaliser made of them
    prePc,              \* where the preprocessing run is
    lineNumber,         \* preprocess: lines read so far
    headerMap,          \* preprocess: header -> column, <<>> while null
    districtIndex,      \* preprocess: district -> items collected
    totalRows,          \* preprocess: the four counters
    writtenByCode,
    skippedNoCoords,
    skippedNoPostcode,
    districtFiles,      \* data/postcodes/by-district: file name -> payload
    flagRaw,            \* an 'In Use?' cell of the source table
    flagOut,            \* what preprocess made of it
    enrichPc,           \* where the enrichment run is
    allHikes,           \* enrich: the records readHikes returned (hikes in main)
    toProcess,          \* enrich: the batch of this run
    cursor,             \* enrich: position of the loop in toProcess
    attempt,            \* enrichWithRetry: failed attempts for the hike at hand
    processed,          \* enrich: the counters of main
    failed,
    successfulSinceCheckpoint,
    settings,           \* enrich: MAX_PER_RUN and CHECKPOINT_EVERY of the run
    apiCalls,           \* slugs sent to the AI API by this run, in order
    apiLog,             \* for each of these calls: its number for the hike, how
                        \* it ended, and the milliseconds slept after it
    csvRows,            \* data/hike-enrichment-usage.csv: slugs of its rows
    checkpoints,        \* commitCheckpoint calls of this run: processed at each
    runEnds,            \* how the earlier enrichment runs ended
    distIn,             \* two points given to the distance functions
    distOut,            \* what the functions returned for them
    osmIn,              \* scrape: the environment, the Overpass answer
    osmRun,             \* scrape: where main is, and its counters
    rawFiles,           \* data/raw/osm: the slugs of its files
    storeReads,         \* search: the stores the call has read
    apiDown,            \* enrichment: the slugs the API fails for, every time
    explorer            \* FilteredHikeMapExplorer: its state, and whether the
                        \* selection effect is due

searchVars == <<hikeFiles, req, resp, storeReads>>
normVars == <<normRaw, normOut>>
preVars == <<prePc, lineNumber, headerMap, districtIndex, totalRows, writtenByCode,
             skippedNoCoords, skippedNoPostcode, districtFiles>>
flagVars == <<flagRaw, flagOut>>

enrichVars == <<enrichPc, allHikes, toProcess, cursor, attempt, processed, failed,
                successfulSinceCheckpoint, settings, apiCalls, apiLog, csvRows, checkpoints,
                runEnds, apiDown>>

distVars == <<distIn, distOut>>

osmVars == <<osmIn, osmRun, rawFiles>>

vars == <<postcodeFiles, searchVars, normVars, preVars, flagVars, enrichVars, distVars,
          osmVars, explorer>>

\* ------------------------------------------------------------------------
\* The stores read by the search
\* ------------------------------------------------------------------------

\* A by-code file: parse is FALSE for content JSON.parse rejects; in_use is
\* "true", "false" or "absent" (no such field); easting and northing are
\* null unless the source table gave them.
PostcodeFile(parse, postcode, inUse, lat, lon) ==
    [parse |-> parse, postcode |-> postcode,
     area |-> deriveAreaDistrictSector(postcode).area,
     district |-> deriveAreaDistrictSector(postcode).district,
     sector |-> deriveAreaDistrictSector(postcode).sector,
     latitude |-> lat, longitude |-> lon, in_use |-> inUse,
     easting |-> Null, northing |-> Null]

\* The by-code directory the search runs against: one record in use, one
\* without the flag, one marked not in use, one unparseable file.
ByCodeStore ==
    [n \in {"S66-7RR.json", "LS1-4AP.json", "N1-0LD.json", "XX1-1XX.json"} |->
        CASE n = "S66-7RR.json" -> PostcodeFile(TRUE, "S66 7RR", "true", 5348, -114)
          [] n = "LS1-4AP.json" -> PostcodeFile(TRUE, "LS1 4AP", "absent", 5380, -155)
          [] n = "N1-0LD.json" -> PostcodeFile(TRUE, "N1 0LD", "false", 5153, -10)
          [] OTHER -> PostcodeFile(FALSE, "", "absent", NaN, NaN)]

\* A file of data/hikes.  json is FALSE for a file whose name does not end
\* in .json; parse is FALSE for content JSON.parse rejects; start is "ok"
\* (lat and lon are numbers), "nonnumeric" (a start object without numeric
\* lat/lon) or "none" (no start object).
HikeFile(slug, json, parse, start, lat, lon) ==
    [slug |-> slug, json |-> json, parse |-> parse, start |-> start,
     lat |-> lat, lon |-> lon]

\* Largest number of files in data/hikes.
MaxHikeFiles == 3

\* Slugs of the hike files, in directory order.
HikeSlugs == <<"alport", "bamford", "castleton", "derwent", "edale">>

\* Start points of the hikes: two at 5.9608 km and 5.9633 km from S66 7RR,
\* 8.8956 km from one another, and one 40.0302 km from S66 7RR whose
\* longitude lies beyond 180 degrees (-1.14 and a full turn east).
HikePoints == {<<5352, -108>>, <<5344, -108>>, <<5384, 35886>>}

\* What the file of a slug may hold.
HikeContents(slug) ==
    {HikeFile(slug, TRUE, FALSE, "none", NaN, NaN),
     HikeFile(slug, TRUE, TRUE, "none", NaN, NaN)}
    \cup {HikeFile(slug, TRUE, TRUE, "ok", p[1], p[2]) : p \in HikePoints}

\* Every directory of exactly n files, then of at most MaxHikeFiles files.
RECURSIVE HikeDirsOfLen(_)
HikeDirsOfLen(n) ==
    IF n = 0 THEN {<<>>}
    ELSE {Append(d, c) : d \in HikeDirsOfLen(n - 1), c \in HikeContents(HikeSlugs[n])}

HikeDirs == UNION {HikeDirsOfLen(n) : n \in 0..MaxHikeFiles}

\* The coordinates found in the two stores, and the distance between any two
\* of them, computed once.
Places == HikePoints \cup {<<ByCodeStore[n].latitude, ByCodeStore[n].longitude>> :
                              n \in {m \in DOMAIN ByCodeStore : ByCodeStore[m].parse}}

DistanceTable ==
    [p \in Places, q \in Places |-> HaversineOf(p[1], p[2], q[1], q[2])]

\* haversineDistanceKm / haversineKm
haversineKm(lat1, lon1, lat2, lon2) ==
    IF <<lat1, lon1>> \in Places /\ <<lat2, lon2>> \in Places
    THEN DistanceTable[<<lat1, lon1>>, <<lat2, lon2>>]
    ELSE HaversineOf(lat1, lon1, lat2, lon2)

\* ------------------------------------------------------------------------
\* Array helpers
\* ------------------------------------------------------------------------

\* Array.prototype.sort((a, b) => a.d - b.d) is a stable sort: insert each
\* element after the elements that are not farther than it.
InsertByDistance(sorted, e) ==
    LET k == Cardinality({i \in 1..Len(sorted) : sorted[i].d <= e.d})
    IN  SubSeq(sorted, 1, k) \o <<e>> \o SubSeq(sorted, k + 1, Len(sorted))

RECURSIVE SortByDistance(_)
SortByDistance(list) ==
    IF list = <<>> THEN <<>>
    ELSE InsertByDistance(SortByDistance(SubSeq(list, 1, Len(list) - 1)),
                          list[Len(list)])

\* ToIntegerOrInfinity of a number: NaN is 0, else truncate towards zero.
ToInteger(n) ==
    IF IsNaN(n) THEN 0
    ELSE IF n >= 0 THEN n \div SCALE ELSE 0 - ((0 - n) \div SCALE)

\* Array.prototype.slice(0, end): a negative end counts from the end.
Slice0(list, end) ==
    LET k == ToInteger(end)
        final == IF k < 0 THEN IF Len(list) + k < 0 THEN 0 ELSE Len(list) + k
                 ELSE IF k > Len(list) THEN Len(list) ELSE k
    IN  SubSeq(list, 1, final)

\* ------------------------------------------------------------------------
\* Search route: GET /api/hikes/near-postcode
\* ------------------------------------------------------------------------

\* What loadPostcodeRecord returns when it returns null.
NoRecord == [found |-> FALSE, postcode |-> "", latitude |-> NaN, longitude |-> NaN]

\* loadPostcodeRecord without its in_use test.
loadPostcodeRecordAnyFlag(postcode) ==
    LET filename == postcodeToFilename(postcode)
    IN  IF filename \notin DOMAIN postcodeFiles THEN NoRecord
        ELSE LET json == postcodeFiles[filename]
             IN  IF ~json.parse THEN NoRecord
                 ELSE [found |-> TRUE, postcode |-> json.postcode,
                       latitude |-> json.latitude, longitude |-> json.longitude]

\* loadPostcodeRecord: null when the file is absent, when it does not parse
\* and when in_use is false; the record otherwise.
loadPostcodeRecord(postcode) ==
    LET filename == postcodeToFilename(postcode)
    IN  IF filename \notin DOMAIN postcodeFiles THEN NoRecord
        ELSE LET json == postcodeFiles[filename]
             IN  IF ~json.parse THEN NoRecord
                 ELSE IF json.in_use = "false" THEN NoRecord
                 ELSE [found |-> TRUE, postcode |-> json.postcode,
                       latitude |-> json.latitude, longitude |-> json.longitude]

\* loadAllHikes: the .json files that parse and have a numeric start.lat and
\* start.lon, in directory order.
loadAllHikes ==
    SelectSeq(hikeFiles, LAMBDA f : f.json /\ f.parse /\ f.start = "ok")

\* The outcome of a call: an HTTP response of the route (kind "http"), the
\* array getNearbyHikes resolves to (kind "return"), or an exception it
\* rejects with (kind "throw").
Outcome(kind, status, error, results) ==
    [kind |-> kind, status |-> status, error |-> error, results |-> results]

NoOutcome == Outcome("none", 0, "", <<>>)

\* URLSearchParams.get(name) ?? dflt
ParamOr(query, name, dflt) == IF name \in DOMAIN query THEN query[name] ELSE dflt

\* The results of the route: annotate with the rounded distance, keep those
\* within maxDistanceKm, sort, cut to limit.
RouteResults(postcodeRecord, hikes, maxDistanceKm, limit) ==
    LET mapped == [i \in 1..Len(hikes) |->
                     [slug |-> hikes[i].slug,
                      d |-> ToFixed2(haversineKm(postcodeRecord.latitude,
                                                 postcodeRecord.longitude,
                                                 hikes[i].lat, hikes[i].lon))]]
        filtered == SelectSeq(mapped, LAMBDA h : LessEq(h.d, maxDistanceKm))
    IN  Slice0(SortByDistance(filtered), limit)

\* The response GET gives to a query.
RouteResponse(query) ==
    LET rawPostcode == ParamOr(query, "postcode", "")
        rawDistance == ParamOr(query, "distance", "50")
        rawLimit == ParamOr(query, "limit", "20")
        postcode == normalisePostcode(rawPostcode)
        maxDistanceKm == ToNumber(rawDistance)
        limit == ToNumber(rawLimit)
        postcodeRecord == loadPostcodeRecord(postcode)
        hikes == loadAllHikes
    IN  IF rawPostcode = ""
        THEN Outcome("http", 400, "Missing required query parameter: postcode", <<>>)
        ELSE IF IsNaN(maxDistanceKm) \/ maxDistanceKm <= 0
        THEN Outcome("http", 400, "distance must be a positive number (km)", <<>>)
        ELSE IF IsNaN(limit) \/ limit <= 0
        THEN Outcome("http", 400, "limit must be a positive number", <<>>)
        ELSE IF ~postcodeRecord.found
        THEN Outcome("http", 404, "Postcode not found or not in use: " \o postcode, <<>>)
        ELSE IF Len(hikes) = 0
        THEN Outcome("http", 500, "No hikes data available yet", <<>>)
        ELSE Outcome("http", 200, "",
                     RouteResults(postcodeRecord, hikes, maxDistanceKm, limit))

\* RouteReads with the lookup made before the checks of the query.
RouteReadsLookupFirst(query) ==
    IF ~loadPostcodeRecord(normalisePostcode(ParamOr(query, "postcode", ""))).found
    THEN {"by-code"}
    ELSE {"by-code", "hikes"}

\* The stores GET reads for a query: none when a check of the query fails,
\* the by-code directory for the lookup, data/hikes once the lookup gave a
\* record.
RouteReads(query) ==
    LET rawPostcode == ParamOr(query, "postcode", "")
        maxDistanceKm == ToNumber(ParamOr(query, "distance", "50"))
        limit == ToNumber(ParamOr(query, "limit", "20"))
    IN  IF rawPostcode = "" THEN {}
        ELSE IF IsNaN(maxDistanceKm) \/ maxDistanceKm <= 0 THEN {}
        ELSE IF IsNaN(limit) \/ limit <= 0 THEN {}
        ELSE IF ~loadPostcodeRecord(normalisePostcode(rawPostcode)).found
        THEN {"by-code"}
        ELSE {"by-code", "hikes"}

\* ------------------------------------------------------------------------
\* Nearby hikes: getNearbyHikes of lib/hikes
\* ------------------------------------------------------------------------

\* What getHikeBySlug returns when it returns null.
NoHike == HikeFile("", FALSE, FALSE, "none", NaN, NaN)

\* getHikeBySlug: the parsed content of <slug>.json, null when the file is
\* absent or does not parse.
getHikeBySlug(slug) ==
    IF \E i \in 1..Len(hikeFiles) :
          hikeFiles[i].json /\ hikeFiles[i].slug = slug /\ hikeFiles[i].parse
    THEN hikeFiles[CHOOSE i \in 1..Len(hikeFiles) :
                      hikeFiles[i].json /\ hikeFiles[i].slug = slug]
    ELSE NoHike

\* getAllHikes: every .json file that getHikeBySlug can read, in directory
\* order.
getAllHikes == SelectSeq(hikeFiles, LAMBDA f : f.json /\ f.parse)

\* NearbyCandidates without the filter on the slug.
NearbyCandidatesWithSelf(slug) ==
    SelectSeq(getAllHikes, LAMBDA h : h.start = "ok")

\* The candidates getNearbyHikes computes a distance for: not the slug
\* asked for, start.lat and start.lon numbers.
NearbyCandidates(slug) ==
    SelectSeq(SelectSeq(getAllHikes, LAMBDA h : h.slug # slug),
              LAMBDA h : h.start = "ok")

\* The array getNearbyHikes builds from the candidates: annotate with the
\* distance from the centre, keep those within maxDistanceKm, sort, cut.
NearbyResults(center, candidates, maxDistanceKm, limit) ==
    LET mapped == [i \in 1..Len(candidates) |->
                     [slug |-> candidates[i].slug,
                      d |-> haversineKm(center.lat, center.lon,
                                        candidates[i].lat, candidates[i].lon)]]
        filtered == SelectSeq(mapped, LAMBDA h : LessEq(h.d, maxDistanceKm))
    IN  Slice0(SortByDistance(filtered), limit)

\* The outcome of getNearbyHikes(slug, maxDistanceKm = 30, limit = 4); args
\* holds the arguments the caller passes.  Reading center.start.lat throws
\* when the centre has no start object and there is a candidate to map.
NearbyOutcome(slug, args) ==
    LET maxDistanceKm == ParamOr(args, "maxDistanceKm", 30 * SCALE)
        limit == ParamOr(args, "limit", 4 * SCALE)
        center == getHikeBySlug(slug)
        candidates == NearbyCandidates(slug)
    IN  IF ~center.parse THEN Outcome("return", 0, "", <<>>)
        ELSE IF center.start = "none" /\ Len(candidates) > 0
        THEN Outcome("throw", 0, "TypeError", <<>>)
        ELSE Outcome("return", 0, "",
                     NearbyResults(center, candidates, maxDistanceKm, limit))

\* ------------------------------------------------------------------------
\* Calls
\* ------------------------------------------------------------------------

\* The parameters that are present, as a function from their names.
Given(opts) == [n \in {m \in DOMAIN opts : opts[m] # <<>>} |-> opts[n][1]]

\* Query strings sent to the route; <<>> is a parameter left out.
RouteQueries ==
    {Given([postcode |-> p, distance |-> d, limit |-> l]) :
        p \in {<<>>, <<"">>, <<"s667rr">>, <<"LS1 4AP">>, <<"n1 0ld">>,
               <<"xx1 1xx">>, <<"ZZ9 9ZZ">>},
        d \in {<<>>, <<"0">>, <<"abc">>, <<"5.96">>, <<"3">>},
        l \in {<<>>, <<"1">>, <<"0">>, <<"x">>}}

\* Arguments passed to getNearbyHikes after the slug.
NearbyArgs ==
    {Given([maxDistanceKm |-> d, limit |-> l]) :
        d \in {<<>>, <<0>>, <<NaN>>, <<89000>>},
        l \in {<<>>, <<1 * SCALE>>, <<0>>, <<0 - SCALE>>, <<NaN>>}}

\* Slugs asked for: those a file may have, and one no file has.
NearbySlugs == {HikeSlugs[i] : i \in 1..MaxHikeFiles} \cup {"missing"}

NoCall == [kind |-> "none", query |-> <<>>, slug |-> "", args |-> <<>>]

\* The route answers a query.
GET(query) ==
    /\ req.kind = "none"
    /\ req' = [kind |-> "GET", query |-> query, slug |-> "", args |-> <<>>]
    /\ resp' = RouteResponse(query)
    /\ storeReads' = RouteReads(query)
    /\ UNCHANGED <<postcodeFiles, hikeFiles, normVars, preVars, flagVars, enrichVars, distVars, osmVars, explorer>>

\* getNearbyHikes is called and settles.
getNearbyHikes(slug, args) ==
    /\ req.kind = "none"
    /\ req' = [kind |-> "nearby", query |-> <<>>, slug |-> slug, args |-> args]
    /\ resp' = NearbyOutcome(slug, args)
    /\ storeReads' = {"hikes"}
    /\ UNCHANGED <<postcodeFiles, hikeFiles, normVars, preVars, flagVars, enrichVars, distVars, osmVars, explorer>>

\* The caller has taken the outcome; the next call can be made.
Receive ==
    /\ req.kind # "none"
    /\ req' = NoCall
    /\ resp' = NoOutcome
    /\ storeReads' = {}
    /\ UNCHANGED <<postcodeFiles, hikeFiles, normVars, preVars, flagVars, enrichVars, distVars, osmVars, explorer>>

\* ------------------------------------------------------------------------
\* The two normalisers, applied to a pair of raw postcodes
\* ------------------------------------------------------------------------

\* Longest raw postcode tried.
MaxRawLen == 4

\* Every string of at most n characters of "s", "S", "7" and " ".
RECURSIVE RawStrings(_)
RawStrings(n) ==
    IF n = 0 THEN {""}
    ELSE RawStrings(n - 1)
            \cup {c \o r : c \in {"s", "S", "7", " "},
                           r \in {q \in RawStrings(n - 1) : Len(q) = n - 1}}

\* raw with the case of its i-th character changed.
FlipCase(raw, i) ==
    LET c == SubSeq(raw, i, i)
    IN  SubSeq(raw, 1, i - 1)
          \o (IF UpperChar(c) = c THEN LowerChar(c) ELSE UpperChar(c))
          \o SubSeq(raw, i + 1, Len(raw))

\* raw with whitespace w put in after its first i characters.
InsertAt(raw, i, w) == SubSeq(raw, 1, i) \o w \o SubSeq(raw, i + 1, Len(raw))

\* The strings one step from raw that differ from it only in letter case
\* or in whitespace: one letter's case changed, one whitespace character
\* put in or taken out.
Respellings(raw) ==
    {raw}
    \cup {FlipCase(raw, i) : i \in 1..Len(raw)}
    \cup {InsertAt(raw, i, w) : i \in 0..Len(raw), w \in Whitespace}
    \cup {SubSeq(raw, 1, i - 1) \o SubSeq(raw, i + 1, Len(raw)) :
             i \in {j \in 1..Len(raw) : SubSeq(raw, j, j) \in Whitespace}}

NotNormalised == [fn |-> "none", a |-> "", b |-> "", again |-> ""]

\* The route's normalisePostcode applied to both raw postcodes, and once
\* more to the first result.
NormaliseQuery ==
    /\ normOut.fn = "none"
    /\ normOut' = [fn |-> "query",
                   a |-> normalisePostcode(normRaw[1]),
                   b |-> normalisePostcode(normRaw[2]),
                   again |-> normalisePostcode(normalisePostcode(normRaw[1]))]
    /\ UNCHANGED <<postcodeFiles, searchVars, normRaw, preVars, flagVars, enrichVars, distVars, osmVars, explorer>>

\* The preprocessing script's normalisePostcode, likewise.
NormalisePre ==
    /\ normOut.fn = "none"
    /\ normOut' = [fn |-> "pre",
                   a |-> normalisePostcodePre(normRaw[1]),
                   b |-> normalisePostcodePre(normRaw[2]),
                   again |-> normalisePostcodePre(normalisePostcodePre(normRaw[1]))]
    /\ UNCHANGED <<postcodeFiles, searchVars, normRaw, preVars, flagVars, enrichVars, distVars, osmVars, explorer>>

\* The name of the by-code file preprocess writes for the first raw postcode
\* ("" when it skips the row), the name loadPostcodeRecord reads when the
\* route is asked for that raw postcode, and the name it reads when asked
\* for the postcode the file was written for.
StoreAndLookup ==
    LET postcode == normalisePostcodePre(Trim(normRaw[1]))
    IN  /\ normOut.fn = "none"
        /\ normOut' = [fn |-> "files",
                       a |-> IF postcode = "" THEN "" ELSE byCodeFilename(postcode),
                       b |-> postcodeToFilename(normalisePostcode(normRaw[1])),
                       again |-> postcodeToFilename(normalisePostcode(postcode))]
        /\ UNCHANGED <<postcodeFiles, searchVars, normRaw, preVars, flagVars, enrichVars, distVars, osmVars, explorer>>

\* ------------------------------------------------------------------------
\* Preprocessing: preprocess() of scripts/preprocess-postcodes.ts
\* ------------------------------------------------------------------------

\* Longest source table read, in lines.
MaxCsvLines == 4

\* headerMap while it is null.
NoHeaderMap == <<>>

\* Lines the source table is made of: blank lines, two header rows, data
\* rows with and without a postcode and coordinates.
CsvLines ==
    {"", "  ",
     "Postcode,Latitude,Longitude,In Use?",
     "latitude,longitude,POSTCODE",
     "Postcode,Latitude,Longitude,Easting",
     "s667rr,53.48,-1.14,Yes",
     "S66 7RR,53.40,-1.20,No",
     "S1 2BB,53.38,-1.47,",
     "S1 2BB,53.38,-1.47,45",
     "S1 1AA,,-1.47,Yes",
     "667rr,53.48,-1.14,Yes",
     "ne1,53.50,-1.10,Yes",
     "53.50,-1.10,s66 8aa",
     ",53.48,-1.14,Yes",
     "S1 1AA,abc,-1.47,Yes",
     "ne1"}

\* The words of an 'In Use?' cell that mean yes, and those that mean no.
YesWords == {"yes", "true", "1", "y", "t"}
NoWords == {"no", "false", "0", "n", "f"}

\* word with its first character in capitals.
Capitalised(word) ==
    IF word = "" THEN "" ELSE UpperChar(Head1(word)) \o Tail1(word)

\* A data row as far as its 'In Use?' cell goes: the word the cell spells,
\* the text of the cell (the word in some letter case, within whitespace),
\* and the shape of the table: "cell" (the row has the cell), "shortRow"
\* (the row ends before the column), "noColumn" (the header has no such
\* column).
FlagRows ==
    UNION {{[word |-> w, cell |-> pad[1] \o c \o pad[2], shape |-> "cell"] :
               c \in {w, ToUpperCase(w), Capitalised(w)},
               pad \in {<<"", "">>, <<" ", "">>, <<"", " ">>, <<" ", " ">>,
                        <<"\t", " ">>}} :
           w \in YesWords \cup NoWords \cup {""}}
    \cup {[word |-> "", cell |-> "", shape |-> sh] : sh \in {"shortRow", "noColumn"}}

NoFlag == [word |-> "", cell |-> "", shape |-> "none"]
NotInterpreted == [done |-> FALSE, inUse |-> FALSE]

\* preprocess reads the 'In Use?' field of a data row and interprets it.
InterpretFlag ==
    LET hdrMap == buildHeaderMap(IF flagRaw.shape = "noColumn"
                                 THEN <<"Postcode", "Latitude">>
                                 ELSE <<"Postcode", "In Use?">>)
        cols == splitCsvLine(IF flagRaw.shape = "cell"
                             THEN "S1 1AA," \o flagRaw.cell
                             ELSE "S1 1AA")
        inUseStr == getField(cols, hdrMap, "In Use?")
    IN  /\ ~flagOut.done
        /\ flagOut' = [done |-> TRUE, inUse |-> truthyFlag(inUseStr)]
        /\ UNCHANGED <<postcodeFiles, searchVars, normVars, preVars, flagRaw, enrichVars, distVars, osmVars, explorer>>

\* The process starts: without the source table it exits at once.
Open(csvExists) ==
    /\ prePc = "start"
    /\ prePc' = IF csvExists THEN "reading" ELSE "exit1"
    /\ UNCHANGED <<postcodeFiles, searchVars, normVars, flagVars, enrichVars, distVars, osmVars, explorer, lineNumber, headerMap,
                   districtIndex, totalRows, writtenByCode, skippedNoCoords,
                   skippedNoPostcode, districtFiles>>

\* The record a data row with a postcode and coordinates is written as.
RowRecord(cols, postcode, lat, lon) ==
    [PostcodeFile(TRUE, postcode,
                  IF truthyFlag(getField(cols, headerMap, "In Use?")) THEN "true"
                  ELSE "false",
                  lat, lon)
        EXCEPT !.easting = parseNumber(getField(cols, headerMap, "Easting")),
               !.northing = parseNumber(getField(cols, headerMap, "Northing"))]

\* SkipNoPostcode without the count.
SkipNoPostcodeUncounted ==
    UNCHANGED <<skippedNoPostcode, skippedNoCoords, postcodeFiles, districtIndex,
                writtenByCode>>

\* A row without a postcode, or whose postcode normalises to "": counted
\* and skipped.
SkipNoPostcode ==
    /\ skippedNoPostcode' = skippedNoPostcode + 1
    /\ UNCHANGED <<skippedNoCoords, postcodeFiles, districtIndex, writtenByCode>>

\* A row whose latitude or longitude is no number: counted and skipped.
SkipNoCoords ==
    /\ skippedNoCoords' = skippedNoCoords + 1
    /\ UNCHANGED <<skippedNoPostcode, postcodeFiles, districtIndex, writtenByCode>>

\* Any other row: its by-code file is written (replacing a file of the same
\* name), it is counted and it is added to its district's list.
WriteRow(cols, postcode, lat, lon) ==
    LET district == deriveAreaDistrictSector(postcode).district
        filename == byCodeFilename(postcode)
        item == [postcode |-> postcode, latitude |-> lat, longitude |-> lon]
    IN  /\ postcodeFiles' =
              [n \in DOMAIN postcodeFiles \cup {filename} |->
                  IF n = filename THEN RowRecord(cols, postcode, lat, lon)
                  ELSE postcodeFiles[n]]
        /\ writtenByCode' = writtenByCode + 1
        /\ districtIndex' =
              [d \in DOMAIN districtIndex \cup {district} |->
                  IF d = district
                  THEN (IF d \in DOMAIN districtIndex THEN districtIndex[d]
                        ELSE <<>>) \o <<item>>
                  ELSE districtIndex[d]]
        /\ UNCHANGED <<skippedNoPostcode, skippedNoCoords>>

\* One turn of the read loop, for the next line of the source table: a
\* blank line, the header (line 1), or a data row.
ReadLine(line) ==
    LET cols == splitCsvLine(line)
        rawPc == getField(cols, headerMap, "Postcode")
        postcode == normalisePostcodePre(rawPc)
        lat == parseNumber(getField(cols, headerMap, "Latitude"))
        lon == parseNumber(getField(cols, headerMap, "Longitude"))
        counted == <<totalRows, skippedNoPostcode, skippedNoCoords, postcodeFiles,
                     districtIndex, writtenByCode>>
    IN  /\ prePc = "reading"
        /\ lineNumber < MaxCsvLines
        /\ lineNumber' = lineNumber + 1
        /\ UNCHANGED <<searchVars, normVars, flagVars, enrichVars, distVars, osmVars, explorer, districtFiles>>
        /\ IF Trim(line) = ""
           THEN UNCHANGED <<prePc, headerMap, counted>>
           ELSE IF lineNumber' = 1
           THEN /\ headerMap' = buildHeaderMap(splitCsvLine(line))
                /\ UNCHANGED <<prePc, counted>>
           ELSE IF headerMap = NoHeaderMap
           THEN /\ prePc' = "exit1"
                /\ UNCHANGED <<headerMap, counted>>
           ELSE /\ totalRows' = totalRows + 1
                /\ UNCHANGED <<prePc, headerMap>>
                /\ IF rawPc = "" \/ postcode = "" THEN SkipNoPostcode
                   ELSE IF lat = Null \/ lon = Null THEN SkipNoCoords
                   ELSE WriteRow(cols, postcode, lat, lon)

\* The source table is at its end: one aggregate file per district is
\* written and the run is complete.
Finish ==
    /\ prePc = "reading"
    /\ prePc' = "done"
    /\ districtFiles' =
          [n \in {d \o ".json" : d \in DOMAIN districtIndex} |->
              LET d == CHOOSE e \in DOMAIN districtIndex : e \o ".json" = n
              IN  [district |-> d, count |-> Len(districtIndex[d]),
                   postcodes |-> districtIndex[d]]]
    /\ UNCHANGED <<postcodeFiles, searchVars, normVars, flagVars, enrichVars, distVars, osmVars, explorer, lineNumber, headerMap,
                   districtIndex, totalRows, writtenByCode, skippedNoCoords,
                   skippedNoPostcode>>

\* ------------------------------------------------------------------------
\* Enrichment: main() of scripts/enrich-hikes.ts
\* ------------------------------------------------------------------------

\* A hike record without the ai field, and the payloads a record may hold:
\* one written by an earlier enrichment, one the AI API answers with now.
\* The request asks for response_format json_object, so a payload is a JSON
\* object, which shouldSkip takes as true.
NoAi == "undefined"
StoredAi == "stored"
AiPayloads == {"fresh"}

\* What the file of a slug may hold when an enrichment run starts: a record
\* normalise-hikes wrote, without or with an ai payload, or content that
\* JSON.parse rejects. normalise-hikes names the file after the slug.
EnrichContents(slug) ==
    {HikeFile(slug, TRUE, TRUE, "ok", 5352, -108) @@ [ai |-> a] :
        a \in {NoAi, StoredAi}}
    \cup {HikeFile(slug, TRUE, FALSE, "none", NaN, NaN) @@ [ai |-> NoAi]}

RECURSIVE EnrichDirsOfLen(_)
EnrichDirsOfLen(n) ==
    IF n = 0 THEN {<<>>}
    ELSE {Append(d, c) : d \in EnrichDirsOfLen(n - 1), c \in EnrichContents(HikeSlugs[n])}

\* Largest number of files in data/hikes when a first enrichment run starts.
MaxEnrichFiles == 2

EnrichDirs == UNION {EnrichDirsOfLen(n) : n \in 0..MaxEnrichFiles}

\* Largest number of enrichment runs followed.
MaxRuns == 2

\* The environment of a run: HIKES_ENRICH_MAX_PER_RUN and
\* HIKES_ENRICH_CHECKPOINT_EVERY as text, "" when unset.
EnrichEnvs ==
    [HIKES_ENRICH_MAX_PER_RUN : {"1", "2"},
     HIKES_ENRICH_CHECKPOINT_EVERY : {"", "abc", "0", "-1", "0.5", "1", "2"}]
NoEnv == [HIKES_ENRICH_MAX_PER_RUN |-> "", HIKES_ENRICH_CHECKPOINT_EVERY |-> ""]

\* parsePositiveInt: Math.floor of a finite number above 0, else fallback.
parsePositiveInt(raw, fallback) ==
    LET n == IF raw # "" THEN ToNumber(raw) ELSE fallback * SCALE
    IN  IF ~IsNaN(n) /\ n > 0 THEN n \div SCALE ELSE fallback

getMaxPerRun(env) == parsePositiveInt(env.HIKES_ENRICH_MAX_PER_RUN, 20)

\* getCheckpointEvery: Math.floor of a finite number above 0, else 0.
getCheckpointEvery(env) ==
    LET raw == env.HIKES_ENRICH_CHECKPOINT_EVERY
        n == IF raw # "" THEN ToNumber(raw) ELSE 0
    IN  IF ~IsNaN(n) /\ n > 0 THEN n \div SCALE ELSE 0

\* MAX_PER_RUN and CHECKPOINT_EVERY of a run, with the environment they
\* were read from.
SettingsOf(env) ==
    [maxPerRun |-> getMaxPerRun(env), checkpointEvery |-> getCheckpointEvery(env),
     env |-> env]
NoSettings == [maxPerRun |-> 0, checkpointEvery |-> 0, env |-> NoEnv]

\* How a commitCheckpoint call went: no .git directory, or the first git
\* step that failed, or "pushed". A failed pull or add is logged and the
\* next step taken; a failed commit or push ends the checkpoint.
GitOutcomes == {"noRepo", "pullFailed", "commitFailed", "pushFailed", "pushed"}

\* commitCheckpoint(totalProcessed): safeExecGit catches every failure, so
\* the call returns whatever happened.
commitCheckpoint(totalProcessed, git) == [processed |-> totalProcessed, git |-> git]

\* Default of enrichWithRetry's maxRetries.
maxRetries == 2

\* Position of a slug in a.localeCompare(b) order.
SlugRank(slug) == CHOOSE i \in 1..Len(HikeSlugs) : HikeSlugs[i] = slug

\* readHikes: the .json files, sorted by name, each parsed.
readHikes(dir) ==
    SortSeq(SelectSeq(dir, LAMBDA f : f.json),
            LAMBDA a, b : SlugRank(a.slug) < SlugRank(b.slug))

\* A shouldSkip that skips nothing.
shouldSkipNothing(hike) == FALSE

shouldSkip(hike) == hike.ai # NoAi

\* A saveHike that loses the start point of the record it writes.
saveHikeWithoutStart(dir, hike) ==
    [i \in 1..Len(dir) |->
        IF dir[i].json /\ dir[i].slug = hike.slug
        THEN [hike EXCEPT !.start = "none"] ELSE dir[i]]

\* saveHike: write the record to <slug>.json, over the file of that name or
\* as a new file.
saveHike(dir, hike) ==
    IF \E i \in 1..Len(dir) : dir[i].json /\ dir[i].slug = hike.slug
    THEN [i \in 1..Len(dir) |->
             IF dir[i].json /\ dir[i].slug = hike.slug THEN hike ELSE dir[i]]
    ELSE Append(dir, hike)

\* pending.slice(0, MAX_PER_RUN)
Slice(seq, n) == SubSeq(seq, 1, IF Len(seq) < n THEN Len(seq) ELSE n)

\* The script starts: it reads every hike, keeps those without ai and takes
\* the first MAX_PER_RUN of them. A file JSON.parse rejects ends the process
\* with exit code 1; with nothing pending main returns at once.
StartRunAfter(env, earlier) ==
    LET read == readHikes(hikeFiles)
        pending == SelectSeq(read, LAMBDA h : ~shouldSkip(h))
        fatal == \E i \in 1..Len(read) : ~read[i].parse
        ends == IF fatal THEN "fatal" ELSE IF Len(pending) = 0 THEN "done" ELSE "loop"
    IN  /\ enrichPc # "loop"
        /\ enrichPc' = ends
        /\ allHikes' = IF fatal THEN <<>> ELSE read
        /\ toProcess' = IF ends = "loop" THEN Slice(pending, getMaxPerRun(env)) ELSE <<>>
        /\ cursor' = 1
        /\ attempt' = 0
        /\ processed' = 0
        /\ failed' = 0
        /\ successfulSinceCheckpoint' = 0
        /\ settings' = SettingsOf(env)
        /\ apiCalls' = <<>>
        /\ apiLog' = <<>>
        /\ checkpoints' = <<>>
        /\ runEnds' = IF ends = "loop" THEN earlier ELSE Append(earlier, ends)
        /\ UNCHANGED <<postcodeFiles, searchVars, normVars, preVars, flagVars, distVars, osmVars, explorer, apiDown, csvRows>>

\* A run, after the runs followed so far.
StartRun(env) ==
    /\ Len(runEnds) < MaxRuns
    /\ StartRunAfter(env, runEnds)

\* One call of callOpenAIForHike as enrichWithRetry saw it: the number of the
\* call for the hike at hand, the code of the error it threw ("none" when it
\* answered, "error" for an error without the quota code), and the backoff
\* slept before the next call.
Called(n, code, backoff) == [call |-> n, code |-> code, backoff |-> backoff]

\* The loop of main moves to the next hike of the batch, or ends the run.
NextHike ==
    /\ attempt' = 0
    /\ cursor' = cursor + 1
    /\ enrichPc' = IF cursor + 1 > Len(toProcess) THEN "done" ELSE "loop"
    /\ runEnds' = IF cursor + 1 > Len(toProcess) THEN Append(runEnds, "done") ELSE runEnds

\* callOpenAIForHike answers: the record is saved with the payload, the usage
\* row appended, the counters moved and the checkpoint made when due.
ApiSucceeds(ai, git) ==
    /\ enrichPc = "loop"
    /\ LET hike == toProcess[cursor]
           due == settings.checkpointEvery > 0
                  /\ successfulSinceCheckpoint + 1 >= settings.checkpointEvery
       IN  /\ apiCalls' = Append(apiCalls, hike.slug)
           /\ apiLog' = Append(apiLog, Called(attempt + 1, "none", 0))
           /\ hikeFiles' = saveHike(hikeFiles, [hike EXCEPT !.ai = ai])
           /\ csvRows' = Append(csvRows, hike.slug)
           /\ processed' = processed + 1
           /\ checkpoints' = IF due THEN Append(checkpoints, commitCheckpoint(processed + 1, git))
                             ELSE checkpoints
           /\ successfulSinceCheckpoint' = IF due THEN 0 ELSE successfulSinceCheckpoint + 1
    /\ NextHike
    /\ UNCHANGED <<postcodeFiles, req, resp, storeReads, normVars, preVars, flagVars, distVars, osmVars, explorer, apiDown, allHikes, toProcess,
                   failed, settings>>

\* An enrichWithRetry that never gives up.
ApiFailsUnbounded ==
    /\ enrichPc = "loop"
    /\ apiCalls' = Append(apiCalls, toProcess[cursor].slug)
    /\ apiLog' = Append(apiLog, Called(attempt + 1, "error", 2000 * (attempt + 1)))
    /\ attempt' = attempt + 1
    /\ UNCHANGED <<postcodeFiles, searchVars, normVars, preVars, flagVars, distVars, osmVars, explorer, apiDown, allHikes,
                   toProcess, processed, successfulSinceCheckpoint, settings, csvRows,
                   checkpoints, failed, cursor, enrichPc, runEnds>>

\* callOpenAIForHike throws an error other than insufficient_quota:
\* enrichWithRetry tries again until the attempts exceed maxRetries, then
\* throws, and main counts the hike as failed.
ApiFails ==
    /\ enrichPc = "loop"
    /\ apiCalls' = Append(apiCalls, toProcess[cursor].slug)
    /\ apiLog' = Append(apiLog, Called(attempt + 1, "error",
                                       IF attempt + 1 > maxRetries THEN 0
                                       ELSE 2000 * (attempt + 1)))
    /\ IF attempt + 1 > maxRetries
       THEN failed' = failed + 1 /\ NextHike
       ELSE attempt' = attempt + 1 /\ UNCHANGED <<failed, cursor, enrichPc, runEnds>>
    /\ UNCHANGED <<postcodeFiles, searchVars, normVars, preVars, flagVars, distVars, osmVars, explorer, apiDown, allHikes, toProcess,
                   processed, successfulSinceCheckpoint, settings, csvRows, checkpoints>>

\* An ApiQuota whose hike main does not count as failed.
ApiQuotaUncounted ==
    /\ enrichPc = "loop"
    /\ apiCalls' = Append(apiCalls, toProcess[cursor].slug)
    /\ apiLog' = Append(apiLog, Called(attempt + 1, "insufficient_quota", 0))
    /\ NextHike
    /\ UNCHANGED <<postcodeFiles, searchVars, normVars, preVars, flagVars, distVars, osmVars, explorer, apiDown, allHikes, toProcess,
                   processed, successfulSinceCheckpoint, settings, csvRows, checkpoints, failed>>

\* callOpenAIForHike throws insufficient_quota: enrichWithRetry throws at
\* once, and the catch of main counts the hike as failed and goes on.
ApiQuota ==
    /\ enrichPc = "loop"
    /\ apiCalls' = Append(apiCalls, toProcess[cursor].slug)
    /\ apiLog' = Append(apiLog, Called(attempt + 1, "insufficient_quota", 0))
    /\ failed' = failed + 1
    /\ NextHike
    /\ UNCHANGED <<postcodeFiles, searchVars, normVars, preVars, flagVars, distVars, osmVars, explorer, apiDown, allHikes, toProcess,
                   processed, successfulSinceCheckpoint, settings, csvRows, checkpoints>>

\* The script is run again with the environment of the run before, whose
\* output is not kept.
Rerun ==
    /\ enrichPc # "loop"
    /\ StartRunAfter(settings.env, <<>>)

\* The API answers for a hike it is not down for.
ApiUp ==
    /\ enrichPc = "loop"
    /\ toProcess[cursor].slug \notin apiDown
    /\ \E ai \in AiPayloads, git \in GitOutcomes : ApiSucceeds(ai, git)

\* The API fails for a hike it is down for.
ApiStaysDown ==
    /\ enrichPc = "loop"
    /\ toProcess[cursor].slug \in apiDown
    /\ ApiFails

\* The process is stopped while it waits: what it held in memory is gone,
\* the files stay.
StopRun ==
    /\ enrichPc = "loop"
    /\ enrichPc' = "idle"
    /\ allHikes' = <<>>
    /\ toProcess' = <<>>
    /\ cursor' = 1
    /\ attempt' = 0
    /\ processed' = 0
    /\ failed' = 0
    /\ successfulSinceCheckpoint' = 0
    /\ settings' = NoSettings
    /\ apiCalls' = <<>>
    /\ apiLog' = <<>>
    /\ checkpoints' = <<>>
    /\ runEnds' = Append(runEnds, "stopped")
    /\ UNCHANGED <<postcodeFiles, searchVars, normVars, preVars, flagVars, distVars, osmVars, explorer, apiDown, csvRows>>

\* ------------------------------------------------------------------------
\* The distance functions on their own
\* ------------------------------------------------------------------------

\* Points <<lat, lon>> in hundredths of a degree: places of the stores,
\* two antipodes on the equator, both poles, and two antipodes at 81.71
\* degrees north and south.
DistancePoints ==
    {<<5348, -114>>, <<5352, -108>>, <<5344, -108>>, <<5380, -155>>,
     <<0, 0>>, <<0, 18000>>, <<9000, 0>>, <<0 - 9000, 0>>,
     <<8171, 0>>, <<0 - 8171, 18000>>}

NoPoints == <<>>
NotMeasured == [done |-> FALSE, there |-> 0, back |-> 0, estimate |-> 0, same |-> 0]

\* The distance from the first point to the second and back as the search
\* and the nearby helper compute it, as the route-length estimator computes
\* it, and from the first point to itself.
Measure ==
    /\ ~distOut.done
    /\ distOut' = [done |-> TRUE,
                   there |-> HaversineOf(distIn[1][1], distIn[1][2],
                                         distIn[2][1], distIn[2][2]),
                   back |-> HaversineOf(distIn[2][1], distIn[2][2],
                                        distIn[1][1], distIn[1][2]),
                   estimate |-> estimatorHaversineKm(<<distIn[1][2], distIn[1][1]>>,
                                                     <<distIn[2][2], distIn[2][1]>>),
                   same |-> HaversineOf(distIn[1][1], distIn[1][2],
                                        distIn[1][1], distIn[1][2])]
    /\ UNCHANGED <<postcodeFiles, searchVars, normVars, preVars, flagVars, enrichVars, distIn, osmVars, explorer>>

\* ------------------------------------------------------------------------
\* The OSM scraper: main() of scripts/scrape-osm-hikes.ts
\* ------------------------------------------------------------------------

\* Largest number of relations in the Overpass answer.
MaxRelations == 3

\* A relation of the answer: its id, whether it has a name tag, and the
\* number of coordinates getRelationCoords finds for it.
OsmRelation(id, named, coords) == [id |-> id, named |-> named, coords |-> coords]

RelationKinds == {<<TRUE, 2>>, <<FALSE, 2>>, <<TRUE, 1>>}

RECURSIVE RelationLists(_)
RelationLists(n) ==
    IF n = 0 THEN {<<>>}
    ELSE {Append(l, OsmRelation(n, k[1], k[2])) : l \in RelationLists(n - 1),
                                                   k \in RelationKinds}

\* MAX_OSM_RELATIONS as text, "" when unset.
MaxRelationsRaws == {"", "abc", "0", "1", "2", "1.5"}

\* MAX_RELATIONS: the number when the variable is set and Number() of it is
\* not NaN, else undefined (Null).
MAX_RELATIONS(raw) == IF raw # "" /\ ~IsNaN(ToNumber(raw)) THEN ToNumber(raw) ELSE Null

\* toSlug: the slug ends in the id, so it is the relation's alone.
toSlug(id) == id

NoScrape == [MAX_OSM_RELATIONS |-> "", OSM_SKIP_EXISTING |-> FALSE, relations |-> <<>>]
ScrapeOff == [pc |-> "off", i |-> 0, totalRelations |-> 0, savedCount |-> 0,
              skippedNoName |-> 0, skippedNoCoords |-> 0, skippedExisting |-> 0]

\* main up to its loop: the Overpass answer is fetched (a failed fetch ends
\* the process with exit code 1) and totalRelations decided; a MAX_RELATIONS
\* that is undefined or 0 is falsy and leaves all relations.
ScrapeStart(fetched) ==
    LET max == MAX_RELATIONS(osmIn.MAX_OSM_RELATIONS)
        len == Len(osmIn.relations) * SCALE
    IN  /\ osmRun.pc = "start"
        /\ osmRun' = IF ~fetched THEN [osmRun EXCEPT !.pc = "exit1"]
                     ELSE [osmRun EXCEPT !.pc = "loop",
                                         !.totalRelations =
                                             IF max # Null /\ max # 0
                                             THEN (IF len < max THEN len ELSE max)
                                             ELSE len]
        /\ UNCHANGED <<postcodeFiles, searchVars, normVars, preVars, flagVars, enrichVars,
                       distVars, explorer, osmIn, rawFiles>>

\* One turn of the loop, for relations[i]: skipped without a name, skipped
\* when its file exists and OSM_SKIP_EXISTING is true, skipped with fewer
\* than two coordinates, else written.
ScrapeRelation ==
    LET rel == osmIn.relations[osmRun.i + 1]
        slug == toSlug(rel.id)
        next == [osmRun EXCEPT !.i = @ + 1]
    IN  /\ osmRun.pc = "loop"
        /\ osmRun.i * SCALE < osmRun.totalRelations
        /\ IF ~rel.named
           THEN osmRun' = [next EXCEPT !.skippedNoName = @ + 1] /\ UNCHANGED rawFiles
           ELSE IF osmIn.OSM_SKIP_EXISTING /\ slug \in rawFiles
           THEN osmRun' = [next EXCEPT !.skippedExisting = @ + 1] /\ UNCHANGED rawFiles
           ELSE IF rel.coords < 2
           THEN osmRun' = [next EXCEPT !.skippedNoCoords = @ + 1] /\ UNCHANGED rawFiles
           ELSE /\ osmRun' = [next EXCEPT !.savedCount = @ + 1]
                /\ rawFiles' = rawFiles \cup {slug}
        /\ UNCHANGED <<postcodeFiles, searchVars, normVars, preVars, flagVars, enrichVars,
                       distVars, explorer, osmIn>>

\* The loop is over: main prints its counts and returns.
ScrapeFinish ==
    /\ osmRun.pc = "loop"
    /\ ~(osmRun.i * SCALE < osmRun.totalRelations)
    /\ osmRun' = [osmRun EXCEPT !.pc = "done"]
    /\ UNCHANGED <<postcodeFiles, searchVars, normVars, preVars, flagVars, enrichVars,
                   distVars, explorer, osmIn, rawFiles>>

\* ------------------------------------------------------------------------
\* The map explorer: FilteredHikeMapExplorer
\* ------------------------------------------------------------------------

\* The hikes of src/data/hikes.ts, in their order.
hikesData ==
    <<[id |-> "stanage-edge-ridge-walk", name |-> "Stanage Edge Ridge Walk",
       region |-> "Peak District",
       summary |-> "A classic gritstone ridge walk along Stanage Edge with huge views over the Hope Valley.",
       themes |-> {"ridges"},
       access_tags |-> {"train-accessible", "bus-accessible", "car-free-possible"}],
      [id |-> "coastal-path-sample", name |-> "Sample Coastal Path",
       region |-> "Cornwall",
       summary |-> "Undulating stretch of coastal path with cliffs, coves, and sea views.",
       themes |-> {"coastal"},
       access_tags |-> {"bus-accessible"}],
      [id |-> "waterfall-valley-sample", name |-> "Sample Waterfall Valley Walk",
       region |-> "Brecon Beacons",
       summary |-> "A woodland gorge walk visiting several scenic waterfalls and pools.",
       themes |-> {"waterfalls"},
       access_tags |-> {"car-free-possible", "bus-accessible"}],
      [id |-> "lakeshore-loop-sample", name |-> "Sample Lakeshore Loop",
       region |-> "Lake District",
       summary |-> "Gentle lakeshore circuit with constant water views and low-level terrain.",
       themes |-> {"lakes"},
       access_tags |-> {"train-accessible"}]>>

TransportKeys == {"trainOnly", "busOnly", "carFreeOnly"}
ThemeKeys == {"coastal", "waterfalls", "lakes", "ridges"}

defaultTransportFilter == [k \in TransportKeys |-> FALSE]
defaultThemeFilter == [k \in ThemeKeys |-> FALSE]

\* Texts typed into the search box.
SearchTexts == {"", " ", "sample", "LAKE", "walk", " walk", "moor"}

\* selectedHikeId while it is null.
NoHikeId == "null"

\* String.prototype.includes
StringIncludes(s, q) ==
    \E i \in 1..(Len(s) - Len(q) + 1) : SubSeq(s, i, i + Len(q) - 1) = q

matchesCarFreeFilters(hike, options) ==
    /\ options.trainOnly => "train-accessible" \in hike.access_tags
    /\ options.busOnly => "bus-accessible" \in hike.access_tags
    /\ options.carFreeOnly => "car-free-possible" \in hike.access_tags

matchesThemeFilters(hike, themes) ==
    LET activeThemes == {k \in ThemeKeys : themes[k]}
    IN  IF activeThemes = {} THEN TRUE
        ELSE \E t \in hike.themes : t \in activeThemes

matchesSearch(hike, query) ==
    IF Trim(query) = "" THEN TRUE
    ELSE LET q == ToLowerCase(query)
         IN  \/ StringIncludes(ToLowerCase(hike.name), q)
             \/ StringIncludes(ToLowerCase(hike.region), q)
             \/ StringIncludes(ToLowerCase(hike.summary), q)

\* matchesSearch for every text typed and every hike, by id.
SearchMatches ==
    [query \in SearchTexts |->
        {hikesData[i].id : i \in {j \in 1..Len(hikesData) :
                                      matchesSearch(hikesData[j], query)}}]

\* filteredHikes of a render with the state st.
filteredHikesOf(st) ==
    SelectSeq(hikesData,
              LAMBDA hike : /\ matchesCarFreeFilters(hike, st.transportFilter)
                            /\ matchesThemeFilters(hike, st.themeFilter)
                            /\ hike.id \in SearchMatches[st.searchQuery])

filteredHikes == filteredHikesOf(explorer)

FilteredIds(st) == {filteredHikesOf(st)[i].id : i \in 1..Len(filteredHikesOf(st))}

\* The component before it is mounted, and as it mounts: the selection
\* effect is due after the first render.
Unmounted ==
    [transportFilter |-> defaultTransportFilter, themeFilter |-> defaultThemeFilter,
     searchQuery |-> "", selectedHikeId |-> NoHikeId, effectDue |-> FALSE]
Mounted == [Unmounted EXCEPT !.effectDue = TRUE]

handleTransportToggle(key) ==
    /\ explorer' = [explorer EXCEPT !.transportFilter[key] = ~@, !.effectDue = TRUE]
    /\ UNCHANGED <<postcodeFiles, searchVars, normVars, preVars, flagVars, enrichVars,
                   distVars, osmVars>>

handleThemeToggle(key) ==
    /\ explorer' = [explorer EXCEPT !.themeFilter[key] = ~@, !.effectDue = TRUE]
    /\ UNCHANGED <<postcodeFiles, searchVars, normVars, preVars, flagVars, enrichVars,
                   distVars, osmVars>>

\* onChange of the search box: the text is another one.
setSearchQuery(value) ==
    /\ value # explorer.searchQuery
    /\ explorer' = [explorer EXCEPT !.searchQuery = value, !.effectDue = TRUE]
    /\ UNCHANGED <<postcodeFiles, searchVars, normVars, preVars, flagVars, enrichVars,
                   distVars, osmVars>>

\* setSelectedHikeId(id): a state that stays the same causes no render and
\* no effect.
setSelectedHikeId(st, id) ==
    [st EXCEPT !.selectedHikeId = id,
               !.effectDue = IF id = st.selectedHikeId THEN @ ELSE TRUE]

\* A click on the card of a hike shown in the list.
handleCardClick(i) ==
    /\ i \in 1..Len(filteredHikes)
    /\ explorer' = setSelectedHikeId(explorer, filteredHikes[i].id)
    /\ UNCHANGED <<postcodeFiles, searchVars, normVars, preVars, flagVars, enrichVars,
                   distVars, osmVars>>

\* A click on the marker of a hike shown on the map.
MarkerClick(i) ==
    /\ i \in 1..Len(filteredHikes)
    /\ explorer' = setSelectedHikeId(explorer, filteredHikes[i].id)
    /\ UNCHANGED <<postcodeFiles, searchVars, normVars, preVars, flagVars, enrichVars,
                   distVars, osmVars>>

\* The selection effect without its test that the selected hike is still
\* in the list.
SelectionKept(st) ==
    IF Len(filteredHikesOf(st)) = 0 THEN NoHikeId
    ELSE IF st.selectedHikeId = NoHikeId THEN filteredHikesOf(st)[1].id
    ELSE st.selectedHikeId

\* The selection effect: null for an empty list, the first hike of the list
\* when none is selected or the selected one is not in the list.
SelectionAfter(st) ==
    IF Len(filteredHikesOf(st)) = 0 THEN NoHikeId
    ELSE IF st.selectedHikeId = NoHikeId \/ st.selectedHikeId \notin FilteredIds(st)
    THEN filteredHikesOf(st)[1].id
    ELSE st.selectedHikeId

\* The effect runs after a render whose filteredHikes or selectedHikeId is
\* new; when it changes selectedHikeId it is due again.
SelectionEffect ==
    /\ explorer.effectDue
    /\ explorer' = [explorer EXCEPT
                       !.selectedHikeId = SelectionAfter(explorer),
                       !.effectDue = SelectionAfter(explorer) # explorer.selectedHikeId]
    /\ UNCHANGED <<postcodeFiles, searchVars, normVars, preVars, flagVars, enrichVars,
                   distVars, osmVars>>

\* ------------------------------------------------------------------------
\* Specifications
\* ------------------------------------------------------------------------

FlagIdle == flagRaw = NoFlag /\ flagOut = NotInterpreted
DistIdle == distIn = NoPoints /\ distOut = NotMeasured
OsmIdle == osmIn = NoScrape /\ osmRun = ScrapeOff /\ rawFiles = {}
ExplorerIdle == explorer = Unmounted
EnrichIdle ==
    /\ enrichPc = "idle"
    /\ allHikes = <<>>
    /\ toProcess = <<>>
    /\ cursor = 1
    /\ attempt = 0
    /\ processed = 0
    /\ failed = 0
    /\ successfulSinceCheckpoint = 0
    /\ settings = NoSettings
    /\ apiCalls = <<>>
    /\ apiLog = <<>>
    /\ csvRows = <<>>
    /\ checkpoints = <<>>
    /\ runEnds = <<>>
    /\ apiDown = {}

SearchIdle == req = NoCall /\ resp = NoOutcome /\ hikeFiles = <<>> /\ storeReads = {}
NormIdle == normRaw = <<"", "">> /\ normOut = NotNormalised
PreIdle ==
    /\ prePc = "off"
    /\ lineNumber = 0
    /\ headerMap = NoHeaderMap
    /\ districtIndex = <<>>
    /\ totalRows = 0
    /\ writtenByCode = 0
    /\ skippedNoCoords = 0
    /\ skippedNoPostcode = 0
    /\ districtFiles = <<>>

\* The search, over every hike directory, against the by-code store.
Init ==
    /\ postcodeFiles = ByCodeStore
    /\ hikeFiles \in HikeDirs
    /\ req = NoCall
    /\ resp = NoOutcome
    /\ storeReads = {}
    /\ NormIdle
    /\ PreIdle
    /\ FlagIdle
    /\ EnrichIdle
    /\ DistIdle
    /\ OsmIdle
    /\ ExplorerIdle

Next ==
    \/ \E query \in RouteQueries : GET(query)
    \/ \E slug \in NearbySlugs, args \in NearbyArgs : getNearbyHikes(slug, args)
    \/ Receive

Spec == Init /\ [][Next]_vars

\* The normalisers, over every raw postcode and its respellings.
InitNormalise ==
    /\ postcodeFiles = ByCodeStore
    /\ SearchIdle
    /\ normRaw \in UNION {{<<a, b>> : b \in Respellings(a)} : a \in RawStrings(MaxRawLen)}
    /\ normOut = NotNormalised
    /\ PreIdle
    /\ FlagIdle
    /\ EnrichIdle
    /\ DistIdle
    /\ OsmIdle
    /\ ExplorerIdle

NextNormalise == NormaliseQuery \/ NormalisePre \/ StoreAndLookup

SpecNormalise == InitNormalise /\ [][NextNormalise]_vars

\* The 'In Use?' field, over every spelling of its words.
InitFlag ==
    /\ postcodeFiles = ByCodeStore
    /\ SearchIdle
    /\ NormIdle
    /\ PreIdle
    /\ flagRaw \in FlagRows
    /\ flagOut = NotInterpreted
    /\ EnrichIdle
    /\ DistIdle
    /\ OsmIdle
    /\ ExplorerIdle

NextFlag == InterpretFlag

SpecFlag == InitFlag /\ [][NextFlag]_vars

\* Enrichment runs, one after another, over every data/hikes directory.
InitEnrich ==
    /\ postcodeFiles = ByCodeStore
    /\ hikeFiles \in EnrichDirs
    /\ req = NoCall
    /\ resp = NoOutcome
    /\ storeReads = {}
    /\ NormIdle
    /\ PreIdle
    /\ FlagIdle
    /\ EnrichIdle
    /\ DistIdle
    /\ OsmIdle
    /\ ExplorerIdle

NextEnrich ==
    \/ \E env \in EnrichEnvs : StartRun(env)
    \/ \E ai \in AiPayloads, git \in GitOutcomes : ApiSucceeds(ai, git)
    \/ ApiFails
    \/ ApiQuota
    \/ StopRun

SpecEnrich == InitEnrich /\ [][NextEnrich]_vars

\* Runs of the enrichment script one after the other, for as long as one
\* likes, with one environment and an API that fails for some hikes on
\* every call and answers for the others.
InitEnrichRepeated ==
    /\ postcodeFiles = ByCodeStore
    /\ hikeFiles \in EnrichDirs
    /\ req = NoCall
    /\ resp = NoOutcome
    /\ storeReads = {}
    /\ NormIdle
    /\ PreIdle
    /\ FlagIdle
    /\ enrichPc = "idle"
    /\ allHikes = <<>>
    /\ toProcess = <<>>
    /\ cursor = 1
    /\ attempt = 0
    /\ processed = 0
    /\ failed = 0
    /\ successfulSinceCheckpoint = 0
    /\ settings \in {SettingsOf(env) : env \in EnrichEnvs}
    /\ apiCalls = <<>>
    /\ apiLog = <<>>
    /\ csvRows = <<>>
    /\ checkpoints = <<>>
    /\ runEnds = <<>>
    /\ apiDown \in SUBSET {HikeSlugs[i] : i \in 1..MaxEnrichFiles}
    /\ DistIdle
    /\ OsmIdle
    /\ ExplorerIdle

NextEnrichRepeated ==
    \/ Rerun
    \/ ApiUp
    \/ ApiStaysDown

\* A run is started whenever none is under way, and a run under way goes
\* on to its end.
SpecEnrichRepeated ==
    InitEnrichRepeated /\ [][NextEnrichRepeated]_vars /\ WF_vars(NextEnrichRepeated)

\* The distance functions, over every pair of points.
InitDistance ==
    /\ postcodeFiles = ByCodeStore
    /\ SearchIdle
    /\ NormIdle
    /\ PreIdle
    /\ FlagIdle
    /\ EnrichIdle
    /\ distIn \in DistancePoints \X DistancePoints
    /\ distOut = NotMeasured
    /\ OsmIdle
    /\ ExplorerIdle

NextDistance == Measure

SpecDistance == InitDistance /\ [][NextDistance]_vars

\* A run of the scraper, over every environment and Overpass answer.
InitScrape ==
    /\ postcodeFiles = ByCodeStore
    /\ SearchIdle
    /\ NormIdle
    /\ PreIdle
    /\ FlagIdle
    /\ EnrichIdle
    /\ DistIdle
    /\ osmIn \in [MAX_OSM_RELATIONS : MaxRelationsRaws, OSM_SKIP_EXISTING : BOOLEAN,
                   relations : UNION {RelationLists(n) : n \in 0..MaxRelations}]
    /\ osmRun = [ScrapeOff EXCEPT !.pc = "start"]
    /\ rawFiles \in {{}, {toSlug(1)}}
    /\ ExplorerIdle

NextScrape ==
    \/ \E fetched \in BOOLEAN : ScrapeStart(fetched)
    \/ ScrapeRelation
    \/ ScrapeFinish

SpecScrape == InitScrape /\ [][NextScrape]_vars

\* The explorer, from its mounting on.
InitExplorer ==
    /\ postcodeFiles = ByCodeStore
    /\ SearchIdle
    /\ NormIdle
    /\ PreIdle
    /\ FlagIdle
    /\ EnrichIdle
    /\ DistIdle
    /\ OsmIdle
    /\ explorer = Mounted

NextExplorer ==
    \/ \E key \in TransportKeys : handleTransportToggle(key)
    \/ \E key \in ThemeKeys : handleThemeToggle(key)
    \/ \E value \in SearchTexts : setSearchQuery(value)
    \/ \E i \in 1..Len(hikesData) : handleCardClick(i)
    \/ \E i \in 1..Len(hikesData) : MarkerClick(i)
    \/ SelectionEffect

SpecExplorer == InitExplorer /\ [][NextExplorer]_vars

\* A preprocessing run, over every source table of at most MaxCsvLines lines.
InitPreprocess ==
    /\ postcodeFiles = <<>>
    /\ SearchIdle
    /\ NormIdle
    /\ prePc = "start"
    /\ lineNumber = 0
    /\ headerMap = NoHeaderMap
    /\ districtIndex = <<>>
    /\ totalRows = 0
    /\ writtenByCode = 0
    /\ skippedNoCoords = 0
    /\ skippedNoPostcode = 0
    /\ districtFiles = <<>>
    /\ FlagIdle
    /\ EnrichIdle
    /\ DistIdle
    /\ OsmIdle
    /\ ExplorerIdle

NextPreprocess ==
    \/ \E csvExists \in BOOLEAN : Open(csvExists)
    \/ \E line \in CsvLines : ReadLine(line)
    \/ Finish

SpecPreprocess == InitPreprocess /\ [][NextPreprocess]_vars

\* ------------------------------------------------------------------------
\* What the properties below speak about
\* ------------------------------------------------------------------------

\* The radius and the cap of the call being answered.
ReqMaxDistanceKm ==
    IF req.kind = "GET" THEN ToNumber(ParamOr(req.query, "distance", "50"))
    ELSE ParamOr(req.args, "maxDistanceKm", 30 * SCALE)

ReqLimit ==
    IF req.kind = "GET" THEN ToNumber(ParamOr(req.query, "limit", "20"))
    ELSE ParamOr(req.args, "limit", 4 * SCALE)

Positive(n) == (~IsNaN(n)) /\ n > 0

ReqValid == Positive(ReqMaxDistanceKm) /\ Positive(ReqLimit)

\* The postcode of a GET call, and the by-code file it names.
ReqRawPostcode == ParamOr(req.query, "postcode", "")
ReqPostcodeFile == postcodeToFilename(normalisePostcode(ReqRawPostcode))

\* What the by-code directory holds under a name.
PostcodeFileState(name) ==
    IF name \notin DOMAIN postcodeFiles THEN "absent"
    ELSE IF ~postcodeFiles[name].parse THEN "unparseable"
    ELSE IF postcodeFiles[name].in_use = "false" THEN "notInUse"
    ELSE "ok"

HasHikeFile(slug) == \E i \in 1..Len(hikeFiles) : hikeFiles[i].slug = slug
HikeFileOf(slug) == hikeFiles[CHOOSE i \in 1..Len(hikeFiles) : hikeFiles[i].slug = slug]

\* A hike file that offers a start point.
Usable(f) == f.json /\ f.parse /\ f.start = "ok"

\* The call's reference point can be resolved: the postcode has a record
\* in use, the slug has a readable trail.
RefResolved ==
    IF req.kind = "GET" THEN PostcodeFileState(ReqPostcodeFile) = "ok"
    ELSE HasHikeFile(req.slug) /\ HikeFileOf(req.slug).parse

RefLat ==
    IF req.kind = "GET" THEN postcodeFiles[ReqPostcodeFile].latitude
    ELSE HikeFileOf(req.slug).lat

RefLon ==
    IF req.kind = "GET" THEN postcodeFiles[ReqPostcodeFile].longitude
    ELSE HikeFileOf(req.slug).lon

\* Great-circle distance from the reference point to a trail's start.
ComputedDistance(slug) ==
    haversineKm(RefLat, RefLon, HikeFileOf(slug).lat, HikeFileOf(slug).lon)

\* The call was answered with a list of candidates.
IsList == (resp.kind = "http" /\ resp.status = 200) \/ resp.kind = "return"

\* The trails a search ranks: usable, and not the reference trail.
Eligible ==
    SelectSeq(hikeFiles,
              LAMBDA f : Usable(f) /\ (req.kind = "nearby" => f.slug # req.slug))

\* The eligible trails within the radius, nearest first (corpus order among
\* equals), cut to the cap.
Nearest ==
    LET measured == [i \in 1..Len(Eligible) |->
                       [slug |-> Eligible[i].slug,
                        d |-> ComputedDistance(Eligible[i].slug)]]
        inRadius == SelectSeq(measured, LAMBDA h : LessEq(h.d, ReqMaxDistanceKm))
    IN  Slice0(SortByDistance(inRadius), ReqLimit)

Slugs(list) == [i \in 1..Len(list) |-> list[i].slug]

\* ------------------------------------------------------------------------
\* Properties
\* ------------------------------------------------------------------------

\* C1: with maxDistanceKm > 0 and limit > 0, no candidate returned by the
\* route or by getNearbyHikes is farther from the reference point, by its
\* computed great-circle distance, than maxDistanceKm.
C1_WithinRadius ==
    (IsList /\ ReqValid) =>
        \A i \in 1..Len(resp.results) :
            LessEq(ComputedDistance(resp.results[i].slug), ReqMaxDistanceKm)

\* C2: every search that is answered with a list returns it in order of
\* non-decreasing annotated distance, and its length does not exceed limit
\* (a list without entries exceeds no limit).
C2_SortedAndCapped ==
    IsList =>
        /\ \A i \in 1..(Len(resp.results) - 1) :
              resp.results[i].d <= resp.results[i + 1].d
        /\ Len(resp.results) > 0 => ~Greater(Len(resp.results) * SCALE, ReqLimit)

\* Trail j is another trail that starts exactly where the reference trail
\* starts.
Twin(j) ==
    /\ HasHikeFile(req.slug)
    /\ Usable(HikeFileOf(req.slug))
    /\ Usable(hikeFiles[j])
    /\ hikeFiles[j].slug # req.slug
    /\ hikeFiles[j].lat = HikeFileOf(req.slug).lat
    /\ hikeFiles[j].lon = HikeFileOf(req.slug).lon

C4_NotFoundAlike ==
    ( /\ req.kind = "GET"
      /\ ReqRawPostcode # ""
      /\ ReqValid
      /\ PostcodeFileState(ReqPostcodeFile) \in {"absent", "unparseable", "notInUse"} )
    => /\ loadPostcodeRecord(normalisePostcode(ReqRawPostcode)) = NoRecord
       /\ resp = Outcome("http", 404,
                         "Postcode not found or not in use: "
                            \o normalisePostcode(ReqRawPostcode), <<>>)

C4_Witness ==
    /\ req.kind = "GET"
    /\ ReqValid
    /\ PostcodeFileState(ReqPostcodeFile) = "unparseable"
    /\ resp.kind = "http"
    /\ resp.status = 404

\* A raw postcode without its whitespace, in capitals: two raw postcodes
\* differ only in letter case and whitespace when these are equal.
Skeleton(raw) == ToUpperCase(ReplaceAllWsRuns(raw, ""))

\* C5: either normaliser gives two raw postcodes that differ only in letter
\* case and whitespace the same canonical code, and gives a canonical code
\* back unchanged.
C5_CaseAndSpaceInvariant ==
    normOut.fn \in {"query", "pre"} =>
        /\ Skeleton(normRaw[1]) = Skeleton(normRaw[2]) => normOut.a = normOut.b
        /\ normOut.again = normOut.a

\* C6: after every line handled, and at completion, totalRows is the sum of
\* the three other counters, and neither the first line nor a blank line
\* is counted.
C6_RowCount ==
    /\ totalRows = writtenByCode + skippedNoPostcode + skippedNoCoords
    /\ totalRows <= (IF lineNumber = 0 THEN 0 ELSE lineNumber - 1)

C6_Witness ==
    /\ prePc = "done"
    /\ writtenByCode >= 1
    /\ skippedNoPostcode >= 1
    /\ skippedNoCoords >= 1

\* What the caller can tell from the outcome.
Observed ==
    IF resp.kind = "http" /\ resp.status = 404 THEN "notFound"
    ELSE IF resp.kind = "http" /\ resp.status = 400 THEN "badRequest"
    ELSE IF resp.kind = "http" /\ resp.status = 500 THEN "noData"
    ELSE IF IsList /\ Len(resp.results) = 0 THEN "noMatch"
    ELSE IF IsList THEN "matches"
    ELSE "exception"

\* C7: the caller can tell apart an unresolvable reference point, an
\* invalid maxDistanceKm or limit, an empty corpus, and a search that found
\* nothing within the radius, in both call patterns: each of the first three
\* has an outcome of its own, which no search over a corpus with eligible
\* trails shares.
C7_FourOutcomes ==
    (req.kind # "none" /\ (req.kind = "GET" => ReqRawPostcode # "")) =>
        /\ (~RefResolved /\ ReqValid) => Observed = "notFound"
        /\ (RefResolved /\ ~ReqValid) => Observed = "badRequest"
        /\ (RefResolved /\ ReqValid /\ Len(SelectSeq(hikeFiles, Usable)) = 0)
              => Observed = "noData"
        /\ (RefResolved /\ ReqValid /\ Len(Eligible) > 0)
              => Observed \in {"noMatch", "matches"}

\* C8: a call whose maxDistanceKm or limit is not a number above 0 is
\* rejected as invalid input (400 from the route) and, in both patterns,
\* gets no candidates.
C8_InvalidRejected ==
    (req.kind # "none" /\ ~ReqValid) =>
        /\ resp.kind = "http" => resp.status = 400
        /\ Len(resp.results) = 0

\* C9: for a resolved reference point and valid parameters the list returned
\* is exactly the first limit of the eligible trails within maxDistanceKm,
\* ordered by distance.
C9_ExactlyNearest ==
    (IsList /\ ReqValid /\ RefResolved) => Slugs(resp.results) = Slugs(Nearest)

\* C10: every candidate returned carries its computed distance rounded to
\* two decimals.
C10_RoundedDistance ==
    IsList =>
        \A i \in 1..Len(resp.results) :
            resp.results[i].d = ToFixed2(ComputedDistance(resp.results[i].slug))

\* Latitude and longitude are valid degrees.
ValidDegrees(lat, lon) ==
    /\ ~IsNaN(lat)
    /\ ~IsNaN(lon)
    /\ -90 * DEG <= lat /\ lat <= 90 * DEG
    /\ -180 * DEG <= lon /\ lon <= 180 * DEG

\* C11: no list of candidates holds a trail whose start is missing, is not
\* numeric, or lies outside -90..90 degrees of latitude or -180..180 degrees
\* of longitude.
C11_ValidStartOnly ==
    IsList =>
        \A i \in 1..Len(resp.results) :
            LET f == HikeFileOf(resp.results[i].slug)
            IN  Usable(f) /\ ValidDegrees(f.lat, f.lon)

\* C12: no search call ends in an exception, whatever the files hold, the
\* file of the reference point included.
C12_NeverThrows ==
    req.kind # "none" => resp.kind \in {"http", "return"}
\* Position of a trail in the corpus.
CorpusIndex(slug) == CHOOSE i \in 1..Len(hikeFiles) : hikeFiles[i].slug = slug

\* C13: of two returned candidates the one that comes first has no greater
\* computed distance than the other, and when their computed distances are
\* equal it comes first in the corpus as well.
C13_OrderByComputedDistance ==
    IsList =>
        \A i, j \in 1..Len(resp.results) :
            i < j =>
                LET di == ComputedDistance(resp.results[i].slug)
                    dj == ComputedDistance(resp.results[j].slug)
                IN  /\ di <= dj
                    /\ di = dj => CorpusIndex(resp.results[i].slug)
                                     < CorpusIndex(resp.results[j].slug)
\* C14: an 'In Use?' cell that spells yes, true, 1, y or t, in any letter
\* case and within any whitespace, is read as true; one that spells no,
\* false, 0, n or f as false; a missing or empty one as true.
C14_InUseFlag ==
    flagOut.done =>
        /\ (flagRaw.shape = "cell" /\ flagRaw.word \in YesWords) => flagOut.inUse
        /\ (flagRaw.shape = "cell" /\ flagRaw.word \in NoWords) => ~flagOut.inUse
        /\ (flagRaw.shape # "cell" \/ flagRaw.word = "") => flagOut.inUse

C14_Witness ==
    /\ flagOut.done
    /\ flagRaw.word = "false"
    /\ flagRaw.cell = "\tFALSE "
    /\ ~flagOut.inUse
\* The canonical code of a raw postcode: its characters other than
\* whitespace, in capitals, with one space before the last 3 when there are
\* more than 3 of them.
Canonical(raw) ==
    LET stripped == Skeleton(raw)
    IN  IF Len(stripped) <= 3 THEN stripped
        ELSE SubSeq(stripped, 1, Len(stripped) - 3) \o " "
               \o SubSeq(stripped, Len(stripped) - 2, Len(stripped))

\* C15: either normaliser returns the canonical code of its input: the
\* empty string for an empty or whitespace-only input, the stripped
\* capitals unsplit when there are at most 3, else split by one space before
\* the last 3.
C15_CanonicalForm ==
    normOut.fn \in {"query", "pre"} =>
        /\ normOut.a = Canonical(normRaw[1])
        /\ normOut.b = Canonical(normRaw[2])
\* C16: the by-code file preprocess writes for a raw postcode has the name
\* loadPostcodeRecord reads when asked for that raw postcode, the name holds
\* no whitespace, and it is the name read when asked for the canonical code
\* the file was written for.
C16_SameFileName ==
    (normOut.fn = "files" /\ normOut.a # "") =>
        /\ normOut.b = normOut.a
        /\ \A w \in Whitespace : ~Includes(normOut.a, w) /\ ~Includes(normOut.b, w)
        /\ normOut.again = normOut.a

\* C17: a run sends to the AI API only hikes that had no ai payload when it
\* started, and no step of any run, the first or one started after a stop,
\* changes a record that holds an ai payload.
C17_AutoResume ==
    /\ [](\A k \in 1..Len(apiCalls) :
             \E i \in 1..Len(allHikes) :
                 allHikes[i].slug = apiCalls[k] /\ allHikes[i].ai = NoAi)
    /\ [][\A i \in 1..Len(hikeFiles) :
             hikeFiles[i].ai # NoAi =>
                 Len(hikeFiles') >= i /\ hikeFiles'[i] = hikeFiles[i]]_vars

\* A run started after a stopped one has called the API, and began with a
\* record the stopped run enriched, which still holds that payload.
C17_Witness ==
    /\ Len(runEnds) > 0
    /\ runEnds[1] = "stopped"
    /\ Len(apiCalls) > 0
    /\ \E i \in 1..Len(allHikes) :
           /\ allHikes[i].ai \in AiPayloads
           /\ \E j \in 1..Len(hikeFiles) : hikeFiles[j] = allHikes[i]

\* The atan2 form and the asin form round differently: the distances they
\* return lie within this many units of SCALE of one another.
CopyTolerance == 2

\* C18: for two valid points the distance is a number not below 0, it is 0
\* from a point to itself, it is the same there and back, and the copy of
\* the route-length estimator returns the same value as the copy of the
\* search and of the nearby helper (to the precision of the fixed point
\* numbers).
C18_DistanceFunction ==
    distOut.done =>
        /\ ~IsNaN(distOut.there) /\ distOut.there >= 0
        /\ distOut.same = 0
        /\ distOut.back = distOut.there
        /\ ~IsNaN(distOut.estimate) /\ Abs(distOut.estimate - distOut.there) <= CopyTolerance

\* The places <<file name, position>> of the aggregate files whose entry
\* names the postcode.
AggregatePlaces(postcode) ==
    {pl \in UNION {{<<n, k>> : k \in 1..Len(districtFiles[n].postcodes)} :
                      n \in DOMAIN districtFiles} :
        districtFiles[pl[1]].postcodes[pl[2]].postcode = postcode}

\* C19: after a completed run every aggregate file counts its entries, each
\* of its entries is the postcode, latitude and longitude of a by-code
\* record of that district, and every by-code record has exactly one entry,
\* in the aggregate of its district.
C19_DistrictAggregates ==
    prePc = "done" =>
        /\ \A n \in DOMAIN districtFiles :
              /\ districtFiles[n].count = Len(districtFiles[n].postcodes)
              /\ \A k \in 1..Len(districtFiles[n].postcodes) :
                    \E m \in DOMAIN postcodeFiles :
                        /\ postcodeFiles[m].postcode = districtFiles[n].postcodes[k].postcode
                        /\ postcodeFiles[m].district = districtFiles[n].district
                        /\ postcodeFiles[m].latitude = districtFiles[n].postcodes[k].latitude
                        /\ postcodeFiles[m].longitude = districtFiles[n].postcodes[k].longitude
        /\ \A m \in DOMAIN postcodeFiles :
              /\ Cardinality(AggregatePlaces(postcodeFiles[m].postcode)) = 1
              /\ \A pl \in AggregatePlaces(postcodeFiles[m].postcode) :
                    districtFiles[pl[1]].district = postcodeFiles[m].district

\* C20: a step changes a file of data/hikes only when it is the successful
\* enrichment of the hike of that slug; the file stays where it was, no file
\* is added, and the record written is the record on disk, which is the
\* record the run read, in every field but ai. A step that counts a failure
\* changes no file.
C20_OnlyAiChanges ==
    [][/\ Len(hikeFiles') = Len(hikeFiles)
       /\ \A i \in 1..Len(hikeFiles) :
             hikeFiles'[i] # hikeFiles[i] =>
                 /\ enrichPc = "loop"
                 /\ processed' = processed + 1
                 /\ hikeFiles[i].slug = toProcess[cursor].slug
                 /\ hikeFiles'[i].slug = hikeFiles[i].slug
                 /\ hikeFiles'[i].ai \in AiPayloads
                 /\ hikeFiles'[i] = [hikeFiles[i] EXCEPT !.ai = hikeFiles'[i].ai]
                 /\ hikeFiles'[i] = [toProcess[cursor] EXCEPT !.ai = hikeFiles'[i].ai]
       /\ failed' # failed => hikeFiles' = hikeFiles]_vars

\* A run has enriched one hike and failed on another: the first holds the
\* new payload, the second is on disk as the run read it.
C20_Witness ==
    /\ processed >= 1
    /\ failed >= 1
    /\ \E i \in 1..Len(hikeFiles) :
           /\ hikeFiles[i].ai \in AiPayloads
           /\ \E k \in 1..Len(toProcess) :
                  toProcess[k].ai = NoAi /\ hikeFiles[i] = [toProcess[k] EXCEPT !.ai = hikeFiles[i].ai]
    /\ \E i \in 1..Len(hikeFiles) :
           \E k \in 1..Len(toProcess) : hikeFiles[i] = toProcess[k]

\* C21: a call that failed with insufficient_quota is the last call of its
\* run, and the run is over.
C21_QuotaStopsRun ==
    \A k \in 1..Len(apiLog) :
        apiLog[k].code = "insufficient_quota" =>
            k = Len(apiLog) /\ enrichPc # "loop"

\* C22: enrichWithRetry makes at most maxRetries + 1 calls for a hike; a call
\* that answers is the last for its hike; after the k-th failed call of a
\* hike, k <= maxRetries, it sleeps 2000 * k ms and calls again for the same
\* hike; a failed call number maxRetries + 1 is followed by no sleep and no
\* further call for the hike.
C22_RetryBound ==
    \A k \in 1..Len(apiLog) :
        LET more == k < Len(apiLog)
            again == apiCalls[k + 1] = apiCalls[k] /\ apiLog[k + 1].call = apiLog[k].call + 1
            fresh == apiCalls[k + 1] # apiCalls[k] /\ apiLog[k + 1].call = 1
        IN  /\ apiLog[k].call \in 1..(maxRetries + 1)
            /\ apiLog[k].code = "none" => apiLog[k].backoff = 0 /\ (more => fresh)
            /\ (apiLog[k].code = "error" /\ apiLog[k].call <= maxRetries) =>
                   apiLog[k].backoff = 2000 * apiLog[k].call /\ (more => again)
            /\ (apiLog[k].code = "error" /\ apiLog[k].call > maxRetries) =>
                   apiLog[k].backoff = 0 /\ (more => fresh)

\* A hike failed on all its calls, and the next one was enriched by its second call.
C22_Witness ==
    \E k \in 1..Len(apiLog) :
        /\ k + 2 <= Len(apiLog)
        /\ apiLog[k].call = maxRetries + 1 /\ apiLog[k].code = "error"
        /\ apiLog[k + 1].code = "error"
        /\ apiLog[k + 2].call = 2 /\ apiLog[k + 2].code = "none"
        /\ failed = 1 /\ processed = 1

\* HIKES_ENRICH_CHECKPOINT_EVERY of the run as a number; NaN when unset.
CheckpointEveryGiven ==
    IF settings.env.HIKES_ENRICH_CHECKPOINT_EVERY = "" THEN NaN
    ELSE ToNumber(settings.env.HIKES_ENRICH_CHECKPOINT_EVERY)

\* The successes of the run after which N successes have come together
\* since the last checkpoint, for N above 0.
CheckpointsDue(n) ==
    {p \in 1..processed : p % ((n + SCALE - 1) \div SCALE) = 0}

\* C23: with HIKES_ENRICH_CHECKPOINT_EVERY = N > 0 the checkpoints of the run
\* are those after every N-th success; unset, invalid or <= 0 there is none;
\* no checkpoint follows a failure; and the step that makes a checkpoint,
\* however its git steps went, counts one success, no failure, and moves to
\* the next hike of the batch.
C23_Checkpoints ==
    /\ []((Positive(CheckpointEveryGiven) =>
              /\ {checkpoints[i].processed : i \in 1..Len(checkpoints)}
                    = CheckpointsDue(CheckpointEveryGiven)
              /\ Len(checkpoints) = Cardinality(CheckpointsDue(CheckpointEveryGiven)))
          /\ (~Positive(CheckpointEveryGiven) => checkpoints = <<>>))
    /\ [][/\ failed' = failed + 1 => checkpoints' = checkpoints
          /\ Len(checkpoints') > Len(checkpoints) =>
                /\ processed' = processed + 1
                /\ failed' = failed
                /\ cursor' = cursor + 1
                /\ toProcess' = toProcess
                /\ enrichPc' = IF cursor < Len(toProcess) THEN "loop" ELSE "done"]_vars

\* MAX_OSM_RELATIONS as a number; NaN when unset or not numeric.
MaxRelationsGiven ==
    IF osmIn.MAX_OSM_RELATIONS = "" THEN NaN ELSE ToNumber(osmIn.MAX_OSM_RELATIONS)

\* C24: at the end of a run with MAX_OSM_RELATIONS a number n, at most n
\* relations were examined and at most n files written; unset or not
\* numeric, every relation was examined. The relations examined are the
\* first of the list.
C24_RelationLimit ==
    osmRun.pc = "done" =>
        /\ ~IsNaN(MaxRelationsGiven) =>
              /\ osmRun.i * SCALE <= MaxRelationsGiven
              /\ osmRun.savedCount * SCALE <= MaxRelationsGiven
        /\ IsNaN(MaxRelationsGiven) => osmRun.i = Len(osmIn.relations)
        /\ osmRun.i <= Len(osmIn.relations)
        /\ osmRun.i = osmRun.savedCount + osmRun.skippedNoName + osmRun.skippedNoCoords
                        + osmRun.skippedExisting

\* The field of a row under the header read: "" when the header has no such
\* column or the row ends before it.
FieldOf(line, name) == getField(splitCsvLine(line), headerMap, name)

\* The field is a number: not empty, and Number() of it is not NaN.
Numeric(field) == field # "" /\ ~IsNaN(ToNumber(field))

\* The canonical code of the row's postcode field, "" without one.
RowCode(line) == normalisePostcodePre(FieldOf(line, "Postcode"))

\* The row has a code and both coordinates.
Producing(line) ==
    /\ RowCode(line) # ""
    /\ Numeric(FieldOf(line, "Latitude"))
    /\ Numeric(FieldOf(line, "Longitude"))

\* What an optional numeric field is written as.
OptionalNumber(field) == IF Numeric(field) THEN ToNumber(field) ELSE Null

\* C25: a data row produces a by-code record exactly when its postcode
\* normalises to a code and its latitude and longitude are numbers; any
\* other data row leaves the by-code files and the district index alone and
\* adds one to exactly one skip counter, no-postcode before no-coords; an
\* empty, missing or non-numeric easting or northing is written as null,
\* and the run goes on.
C25_RowOutcome ==
    [][\A line \in CsvLines :
          (totalRows' = totalRows + 1 /\ ReadLine(line)) =>
              LET name == byCodeFilename(RowCode(line)) IN
              /\ prePc' = "reading"
              /\ Producing(line) <=> writtenByCode' = writtenByCode + 1
              /\ Producing(line) =>
                    /\ name \in DOMAIN postcodeFiles'
                    /\ postcodeFiles'[name].postcode = RowCode(line)
                    /\ postcodeFiles'[name].easting =
                           OptionalNumber(FieldOf(line, "Easting"))
                    /\ postcodeFiles'[name].northing =
                           OptionalNumber(FieldOf(line, "Northing"))
                    /\ skippedNoPostcode' = skippedNoPostcode
                    /\ skippedNoCoords' = skippedNoCoords
              /\ ~Producing(line) =>
                    /\ postcodeFiles' = postcodeFiles
                    /\ districtIndex' = districtIndex
                    /\ IF RowCode(line) = ""
                       THEN /\ skippedNoPostcode' = skippedNoPostcode + 1
                            /\ skippedNoCoords' = skippedNoCoords
                       ELSE /\ skippedNoPostcode' = skippedNoPostcode
                            /\ skippedNoCoords' = skippedNoCoords + 1]_vars

\* A run that wrote a record with an easting and one without, and skipped
\* a row for its coordinates (an empty latitude).
C25_Witness ==
    /\ prePc = "reading"
    /\ lineNumber = 4
    /\ headerMap = buildHeaderMap(splitCsvLine("Postcode,Latitude,Longitude,Easting"))
    /\ skippedNoCoords = 1
    /\ \E n \in DOMAIN postcodeFiles : postcodeFiles[n].easting = ToNumber("45")
    /\ \E n \in DOMAIN postcodeFiles : postcodeFiles[n].easting = Null

\* The outward part of a canonical code: all of a code of three characters
\* or fewer, else what stands before the space and the three inward ones.
OutwardPart(code) ==
    IF Len(code) <= 3 THEN code ELSE SubSeq(code, 1, Len(code) - 4)

\* The sector of a canonical code: the code up to the first character of
\* its inward part, the outward part when there is no inward part.
SectorPart(code) ==
    IF Len(code) <= 3 THEN code ELSE SubSeq(code, 1, Len(code) - 2)

\* C26: in every by-code record written, district is the outward part of
\* the code, area the leading run of letters of the outward part, and
\* sector the outward part with the first character of the inward part
\* (the outward part alone for a code without inward part).
C26_DerivedParts ==
    \A n \in DOMAIN postcodeFiles :
        LET r == postcodeFiles[n] IN
        /\ r.district = OutwardPart(r.postcode)
        /\ r.area = LeadingLetters(OutwardPart(r.postcode))
        /\ r.sector = SectorPart(r.postcode)

\* The check of GET that a call fails first, "none" when it passes all.
FirstFailing ==
    IF ReqRawPostcode = "" THEN "postcode"
    ELSE IF ~Positive(ReqMaxDistanceKm) THEN "distance"
    ELSE IF ~Positive(ReqLimit) THEN "limit"
    ELSE IF ~RefResolved THEN "lookup"
    ELSE IF Len(SelectSeq(hikeFiles, Usable)) = 0 THEN "corpus"
    ELSE "none"

\* C27: GET answers with the first check that fails, in the order missing
\* postcode, invalid distance, invalid limit (400 each), postcode lookup
\* (404), corpus load (500), else 200; a call with an invalid distance or
\* limit gets 400 whatever the postcode and reads neither store; an
\* unresolvable postcode gets 404 without the hike store being read,
\* whatever the corpus.
C27_CheckOrder ==
    req.kind = "GET" =>
        /\ resp.kind = "http"
        /\ resp.status = (CASE FirstFailing \in {"postcode", "distance", "limit"} -> 400
                            [] FirstFailing = "lookup" -> 404
                            [] FirstFailing = "corpus" -> 500
                            [] OTHER -> 200)
        /\ FirstFailing = "postcode" =>
              resp.error = "Missing required query parameter: postcode"
        /\ FirstFailing = "distance" =>
              resp.error = "distance must be a positive number (km)"
        /\ FirstFailing = "limit" => resp.error = "limit must be a positive number"
        /\ ~ReqValid => resp.status = 400 /\ storeReads = {}
        /\ FirstFailing = "postcode" => storeReads = {}
        /\ FirstFailing = "lookup" => storeReads = {"by-code"}

\* A call with an invalid distance or limit for a postcode that has a
\* record, over a corpus with a usable trail: answered 400, no store read.
C27_Witness ==
    /\ req.kind = "GET"
    /\ FirstFailing \in {"distance", "limit"}
    /\ RefResolved
    /\ Len(SelectSeq(hikeFiles, Usable)) > 0
    /\ resp.status = 400
    /\ storeReads = {}

\* The file of the slug holds a record without ai.
LacksAi(slug) ==
    \E i \in 1..Len(hikeFiles) :
        hikeFiles[i].slug = slug /\ hikeFiles[i].parse /\ hikeFiles[i].ai = NoAi

\* Every file of data/hikes parses, so that a run gets to its loop.
AllReadable == \A i \in 1..Len(hikeFiles) : hikeFiles[i].parse

\* C28: under repeated runs with one MAX_PER_RUN, a hike lacking ai that
\* the API answers for is eventually enriched, whatever hikes the API
\* fails for on every call.
C28_NoStarvation ==
    \A slug \in {HikeSlugs[i] : i \in 1..MaxEnrichFiles} :
        (LacksAi(slug) /\ AllReadable /\ slug \notin apiDown) ~> ~LacksAi(slug)

\* remaining, as main computes it from the hikes it read: those without ai.
remaining == Len(SelectSeq(allHikes, LAMBDA h : ~shouldSkip(h)))

\* The records of data/hikes that lack ai.
LackingOnDisk ==
    Len(SelectSeq(hikeFiles, LAMBDA f : f.json /\ f.parse /\ f.ai = NoAi))

\* The number of hikes a run selects.
Selected ==
    IF remaining < settings.maxPerRun THEN remaining ELSE settings.maxPerRun

TextFound(hike, text) ==
    \/ Trim(text) = ""
    \/ \E field \in {hike.name, hike.region, hike.summary} :
          StringIncludes(ToLowerCase(field), ToLowerCase(text))

\* The hikes, by id, each text is found in.
FoundIn ==
    [text \in SearchTexts |->
        {hikesData[i].id : i \in {j \in 1..Len(hikesData) :
                                      TextFound(hikesData[j], text)}}]

\* The tag a transport toggle asks for.
TagOf(key) ==
    CASE key = "trainOnly" -> "train-accessible"
      [] key = "busOnly" -> "bus-accessible"
      [] key = "carFreeOnly" -> "car-free-possible"

\* The hike belongs in the list under the filters and the text.
Belongs(hike) ==
    /\ \A key \in TransportKeys :
          explorer.transportFilter[key] => TagOf(key) \in hike.access_tags
    /\ \/ \A key \in ThemeKeys : ~explorer.themeFilter[key]
       \/ \E key \in ThemeKeys : explorer.themeFilter[key] /\ key \in hike.themes
    /\ hike.id \in FoundIn[explorer.searchQuery]

\* C30: once the effects have settled, selectedHikeId is null exactly when
\* the filtered list is empty and else the id of a hike of the list; the
\* effect selects the first hike of the list when the selected one was
\* filtered out; the list holds exactly the hikes with every active
\* transport tag, an active theme (or none active) and the search text.
C30_SelectionAndFilter ==
    /\ [](/\ ~explorer.effectDue =>
                /\ explorer.selectedHikeId = NoHikeId <=> Len(filteredHikes) = 0
                /\ explorer.selectedHikeId # NoHikeId =>
                      explorer.selectedHikeId \in FilteredIds(explorer)
          /\ \A i \in 1..Len(hikesData) :
                hikesData[i].id \in FilteredIds(explorer) <=> Belongs(hikesData[i]))
    /\ [][(/\ SelectionEffect
           /\ explorer.selectedHikeId # NoHikeId
           /\ explorer.selectedHikeId \notin FilteredIds(explorer)
           /\ Len(filteredHikes) > 0)
          => explorer'.selectedHikeId = filteredHikes[1].id]_vars

\* Settled after the selected hike was filtered out: the first hike of the
\* list, which is not the first hike of all, is selected.
C30_Witness ==
    /\ ~explorer.effectDue
    /\ explorer.themeFilter["lakes"]
    /\ explorer.searchQuery = "LAKE"
    /\ Len(filteredHikes) = 1
    /\ explorer.selectedHikeId = "lakeshore-loop-sample"
====
